---- MODULE Spec2Model ----
(***************************************************************************)
(* A model of the bus-mapping CircuitInputBuilder                          *)
(* (bus-mapping/src/circuit_input_builder.rs): the replay of a batch of    *)
(* blocks into the operation container, the resolution of the deferred     *)
(* RwCounterEndOfReversion placeholders and the end-block padding.         *)
(*                                                                         *)
(* The builder is one sequential process.  pc is its position:             *)
(*   "multi"      the for loop of gen_inputs_from_state_multi              *)
(*   "tx_loop"    the for loop of handle_block_inner                       *)
(*   "steps"      handle_tx, inside the loop over geth_trace.struct_logs   *)
(*   "commit"     handle_tx, before sdb.commit_tx()                        *)
(*   "push"       handle_tx, before block.txs.push(tx)                     *)
(*   "reversion"  handle_block_inner, before set_value_ops_..._rwc_eor     *)
(*   "end_block"  handle_block_inner, before set_end_block                 *)
(*   "done"       the build returned Ok(builder)                           *)
(*   "failed"     the build returned Err(e), or panicked                   *)
(*   "call"       a free function of the module is called with fn_args     *)
(*   "gates"      a circuit calls the gates of RlcConfig on a region        *)
(*   "returned"   the free function has returned fn_result                 *)
(*                                                                         *)
(* Indices are 0-based as in the Rust source; TLA+ sequences are 1-based,  *)
(* so element i of a Vec v is v[i + 1].                                    *)
(*                                                                         *)
(* The gates of the aggregator's RlcConfig                                 *)
(* (aggregator/src/aggregation/rlc/gates.rs) have a section of their own   *)
(* at the end of the model.                                                *)
(***************************************************************************)
EXTENDS Integers, Sequences, FiniteSets, TLC

(***************************************************************************)
(* Bounds of the model.                                                    *)
(***************************************************************************)
\* blocks in a batch (blocks_and_traces.len())
MaxBlocks == 2
\* transactions in one eth_block
MaxBlockTxs == 2
\* steps in one geth_trace.struct_logs
MaxSteps == 4
\* operations the trace steps of one build may insert, all transactions
\* together (the begin-tx, end-tx and end-block operations are not counted)
MaxStepOps == 4
\* the small fixed circuits_params.max_rws tried next to 0 and the default
SmallMaxRws == 7

\* rows of phase_2_column a Region has room for
MaxRegionRows == 60
\* gate calls made on one offset
MaxGateCalls == 2
\* cells in the inputs of rlc and rlc_with_flag
MaxRlcInputs == 3

\* CircuitsParams::default().max_rws
DefaultMaxRws == 1000
\* CircuitsParams::default().max_txs
DefaultMaxTxs == 1

\* errors a generator (an external collaborator) may return
GenErrors == {"InvalidGethExecStep", "AccountNotFound"}
\* Error::InternalError("rws not enough")
RwsNotEnough == "InternalError(rws not enough)"
\* Error::EthTypeError(eth_types::Error::IncompleteBlock)
IncompleteBlock == "EthTypeError(IncompleteBlock)"

VARIABLES
    circuits_params,    \* block.circuits_params: [max_rws, max_txs]
    is_last,            \* gen_inputs_from_state_multi: idx == len - 1
    num_block_txs,      \* handle_block_inner: eth_block.transactions.len()
    pc,                 \* position of the build
    idx,                \* gen_inputs_from_state_multi: index of the block
    tx_index,           \* handle_block_inner: index into eth_block.transactions
    index,              \* handle_tx: index into geth_trace.struct_logs
    rwc,                \* block_ctx.rwc
    call_map,           \* block_ctx.call_map: call_id -> <<tx_idx, call_idx>>
    container,          \* block.container: one sub-log per target
    txs,                \* block.txs
    block_steps,        \* block.block_steps: end_block_not_last, end_block_last
    withdraw_root,      \* block.withdraw_root
    prev_withdraw_root, \* block.prev_withdraw_root
    eth_tx,             \* the eth_types::Transaction taken from the block,
                        \* while handle_tx reads it (up to gen_begin_tx_ops)
    geth_trace,         \* the trace handle_tx is given, [failed, l1_fee],
                        \* while handle_tx reads these fields of it
    tx,                 \* handle_tx: the transaction being replayed
    tx_ctx,             \* handle_tx: its TransactionContext
    sdb,                \* the state snapshot: number of commit_tx calls
    result,             \* what the build returned
    raised,             \* history: the error the failing generator returned
    n_set_value_ops,    \* history: calls of set_value_ops_call_context_rwc_eor
    n_set_end_block,    \* history: calls of set_end_block
    last_tx_log,        \* history: the calls of handle_tx with is_last_tx,
                        \* and what became of the last transaction of the
                        \* final block
    fn_args,            \* the arguments of the free function called
    fn_result,          \* what the free function returned
    region,             \* the Region the gates assign: for every row of
                        \* phase_2_column its value and its assignments
    gate_offset,        \* the caller's offset, passed as &mut usize
    gate_log            \* history: the gate calls made, with what each
                        \* was given, wrote and returned

vars == <<circuits_params, is_last, num_block_txs, pc, idx, tx_index, index, rwc,
          call_map, container, txs, block_steps, withdraw_root,
          prev_withdraw_root, eth_tx, geth_trace, tx, tx_ctx, sdb, result,
          raised, n_set_value_ops, n_set_end_block, last_tx_log, fn_args,
          fn_result, region, gate_offset, gate_log>>

\* a Region no gate has assigned yet: no row has a value
NoRegion == [row \in 0..(MaxRegionRows - 1) |-> [value |-> "-", assigned |-> 0]]

(***************************************************************************)
(* Operations and the operation container.                                 *)
(***************************************************************************)
Targets == {"call_context", "storage", "account", "tx_receipt", "start"}

\* Operation::new(rwc, rw, op); field and call_id are those of a
\* CallContextOp and are "-" and 0 for the other targets
Operation(c, rw, field, call_id, value) ==
    [rwc |-> c, rw |-> rw, field |-> field, call_id |-> call_id, value |-> value]

\* OperationContainer::new()
EmptyContainer == [t \in Targets |-> <<>>]

\* OperationContainer::insert: appends to the target's sub-log; the
\* OperationRef is <<target, position>>
ContainerInsert(cont, target, op) == [cont EXCEPT ![target] = Append(@, op)]

OperationRef(cont, target) == <<target, Len(cont[target])>>

\* all operations of a container, as a sequence (sub-log after sub-log)
AllOps(cont) ==
    cont["call_context"] \o cont["storage"] \o cont["account"]
        \o cont["tx_receipt"] \o cont["start"]

\* the operations inserted through the counter authority
CountedOps(cont) ==
    cont["call_context"] \o cont["storage"] \o cont["account"]
        \o cont["tx_receipt"]

(***************************************************************************)
(* CircuitInputStateRef: the mediator.  A mediator state m is the part of  *)
(* the builder a generator may extend:                                     *)
(*   [container, rwc, call_map, tx, tx_ctx, tx_idx, refs]                  *)
(* tx_idx is block.txs.len(), the index the active transaction will get;   *)
(* refs collects the OperationRefs pushed to the current step.             *)
(***************************************************************************)
StateRef(cont, c, cm, t, tc, n_txs) ==
    [container |-> cont, rwc |-> c, call_map |-> cm, tx |-> t, tx_ctx |-> tc,
     tx_idx |-> n_txs, refs |-> <<>>]

\* CircuitInputStateRef::push_op: the counter authority (rwc.inc_pre())
PushOp(m, target, rw, field, call_id, value) ==
    LET cont == ContainerInsert(m.container, target,
                                Operation(m.rwc, rw, field, call_id, value))
    IN  [m EXCEPT !.container = cont,
                  !.rwc = m.rwc + 1,
                  !.refs = Append(@, OperationRef(cont, target))]

\* CircuitInputStateRef::call_context_read
CallContextRead(m, call_id, field, value) ==
    PushOp(m, "call_context", "READ", field, call_id, value)

(***************************************************************************)
(* Calls, transactions and the transaction context.                        *)
(***************************************************************************)
\* Call: rw_counter_end_of_reversion is 0 until the call's reversion is handled
Call(call_id, is_success) ==
    [call_id |-> call_id, is_success |-> is_success,
     rw_counter_end_of_reversion |-> 0]

\* Transaction::new(call_id, sdb, code_db, eth_tx, is_success): the root call
\* is calls[0]
TransactionNew(call_id, is_success) ==
    [calls |-> <<Call(call_id, is_success)>>, steps |-> <<>>]

\* Transaction::dummy(), and the value of tx outside handle_tx
NoTx == [calls |-> <<>>, steps |-> <<>>]

\* a reversion group: the calls reverted together, each with the number of
\* reversible writes of the group that precede it, and the group's writes
ReversionGroup(call_idx, offset) ==
    [calls |-> << <<call_idx, offset>> >>, nwrites |-> 0]

\* TransactionContext::new(eth_tx, geth_trace, is_last_tx): the root call is
\* on the call stack; a failed transaction opens the root's reversion group
TransactionContextNew(failed, is_last_tx) ==
    [call_stack |-> <<0>>,
     is_last_tx |-> is_last_tx,
     reversion_groups |-> IF failed THEN <<ReversionGroup(0, 0)>> ELSE <<>>]

\* TransactionContext::default(), and the value of tx_ctx outside handle_tx
NoTxCtx == [call_stack |-> <<>>, is_last_tx |-> FALSE, reversion_groups |-> <<>>]

\* BTreeMap/HashMap::insert: an existing entry is overwritten
MapInsert(m, k, v) == [x \in (DOMAIN m) \cup {k} |-> IF x = k THEN v ELSE m[x]]

EmptyMap == [x \in {} |-> <<0, 0>>]

\* an ExecStep with the references to the operations it caused
ExecStep(exec_state, refs) ==
    [exec_state |-> exec_state, bus_mapping_instance |-> refs]

\* tx.steps_mut().push(step): the step takes the references collected so far
PushStep(m, exec_state) ==
    [m EXCEPT !.tx.steps = Append(@, ExecStep(exec_state, m.refs)),
              !.refs = <<>>]

Last(s) == s[Len(s)]

Front(s) == SubSeq(s, 1, Len(s) - 1)

(***************************************************************************)
(* The opcode generators (external collaborators of the orchestrator).     *)
(***************************************************************************)
\* the call on top of the call stack
CurrentCallIdx(m) == Last(m.tx_ctx.call_stack)

CurrentCall(m) == m.tx.calls[CurrentCallIdx(m) + 1]

\* the placeholder read every call-aware generator emits: the value is the
\* call's rw_counter_end_of_reversion as known at that time
ReadRwcEor(m, call) ==
    CallContextRead(m, call.call_id, "RwCounterEndOfReversion",
                    call.rw_counter_end_of_reversion)

\* a reversible write is counted in the innermost open reversion group
CountReversibleWrite(m) ==
    LET gs == m.tx_ctx.reversion_groups
    IN  IF gs = <<>> THEN m
        ELSE [m EXCEPT !.tx_ctx.reversion_groups[Len(gs)].nwrites = @ + 1]

\* gen_begin_tx_ops: the root call's context (the transaction's id, which
\* is its index plus one, and the placeholder) and the caller's account write
GenBeginTxOps(m) ==
    LET root == m.tx.calls[1]
        m1 == CallContextRead(m, root.call_id, "TxId", m.tx_idx + 1)
        m2 == ReadRwcEor(m1, root)
        m3 == PushOp(m2, "account", "WRITE", "-", 0, 0)
    IN  PushStep(m3, "BeginTx")

\* gen_end_tx_ops: the receipt
GenEndTxOps(m) ==
    PushStep(PushOp(m, "tx_receipt", "WRITE", "-", 0, 0), "EndTx")

\* SSTORE: the call context read with the placeholder, then the storage write
GenSstore(m) ==
    LET m1 == ReadRwcEor(m, CurrentCall(m))
        m2 == PushOp(m1, "storage", "WRITE", "-", 0, 1)
    IN  PushStep(CountReversibleWrite(m2), "SSTORE")

\* CALL: parse_call and push_call give the callee the counter as its call_id
\* and register it in the call_map; then the callee's placeholder is read
GenCall(m, is_success) ==
    LET call_id  == m.rwc
        call_idx == Len(m.tx.calls)
        gs       == m.tx_ctx.reversion_groups
        groups   == IF ~is_success
                        THEN Append(gs, ReversionGroup(call_idx, 0))
                    ELSE IF gs = <<>> THEN gs
                    ELSE [gs EXCEPT ![Len(gs)].calls =
                              Append(@, <<call_idx, gs[Len(gs)].nwrites>>)]
        m1 == [m EXCEPT !.tx.calls = Append(@, Call(call_id, is_success)),
                        !.call_map = MapInsert(@, call_id, <<m.tx_idx, call_idx>>),
                        !.tx_ctx.call_stack = Append(@, call_idx),
                        !.tx_ctx.reversion_groups = groups]
    IN  PushStep(ReadRwcEor(m1, Call(call_id, is_success)), "CALL")

\* the compensating writes of a reverted group, inserted through the counter
RECURSIVE PushReversions(_, _)
PushReversions(m, n) ==
    IF n = 0 THEN m
    ELSE PushReversions(PushOp(m, "storage", "WRITE", "-", 0, 0), n - 1)

\* the calls of a reverted group get their rw_counter_end_of_reversion
RECURSIVE SetEndOfReversion(_, _, _)
SetEndOfReversion(calls, group_calls, last_rwc) ==
    IF group_calls = <<>> THEN calls
    ELSE LET c == group_calls[1]
         IN  SetEndOfReversion(
                 [calls EXCEPT ![c[1] + 1].rw_counter_end_of_reversion =
                                   last_rwc - c[2]],
                 Tail(group_calls), last_rwc)

\* CircuitInputStateRef::handle_reversion: pops the innermost group, inserts
\* its compensating writes and fixes the end of reversion of its calls
HandleReversion(m) ==
    LET g  == Last(m.tx_ctx.reversion_groups)
        m1 == PushReversions(m, g.nwrites)
    IN  [m1 EXCEPT !.tx.calls = SetEndOfReversion(@, g.calls, m1.rwc - 1),
                   !.tx_ctx.reversion_groups = Front(@)]

\* STOP / RETURN / REVERT: the current call ends; a failed call is reverted
GenEndCall(m) ==
    LET m1 == IF CurrentCall(m).is_success THEN m ELSE HandleReversion(m)
        m2 == [m1 EXCEPT !.tx_ctx.call_stack = Front(@)]
    IN  PushStep(m2, "END")

\* the instructions of the model's traces
OpcodeIds == {"SSTORE", "CALL_OK", "CALL_FAIL", "END"}

\* gen_associated_ops: the dispatch on the instruction
GenAssociatedOps(op, m) ==
    CASE op = "SSTORE"    -> GenSstore(m)
      [] op = "CALL_OK"   -> GenCall(m, TRUE)
      [] op = "CALL_FAIL" -> GenCall(m, FALSE)
      [] op = "END"       -> GenEndCall(m)

\* the operations the trace steps of a transaction inserted
RECURSIVE StepOps(_)
StepOps(steps) ==
    IF steps = <<>> THEN 0
    ELSE (IF steps[1].exec_state \in {"BeginTx", "EndTx"} THEN 0
          ELSE Len(steps[1].bus_mapping_instance)) + StepOps(Tail(steps))

RECURSIVE SumStepOps(_)
SumStepOps(txs_) ==
    IF txs_ = <<>> THEN 0 ELSE StepOps(txs_[1].steps) + SumStepOps(Tail(txs_))

\* the compensating writes the open reversion groups will still insert
RECURSIVE PendingReversions(_)
PendingReversions(groups) ==
    IF groups = <<>> THEN 0
    ELSE groups[1].nwrites + PendingReversions(Tail(groups))

\* the traces geth produces are well nested: a step is possible when the
\* steps left after it can still end every open call; the traces tried
\* insert at most MaxStepOps operations per build (done is what the
\* transactions already replayed used of them)
StepFits(op, m, i, done) ==
    LET depth == Len(m.tx_ctx.call_stack)
        after == CASE op = "SSTORE" -> depth
                   [] op \in {"CALL_OK", "CALL_FAIL"} -> depth + 1
                   [] op = "END" -> depth - 1
    IN  /\ depth >= 1
        /\ op \in {"CALL_OK", "CALL_FAIL"} => depth = 1
        /\ MaxSteps - (i + 1) >= after
        /\ LET n == GenAssociatedOps(op, m)
           IN  done + StepOps(n.tx.steps)
                   + PendingReversions(n.tx_ctx.reversion_groups) <= MaxStepOps

(***************************************************************************)
(* The orchestrator: CircuitInputBuilder.                                  *)
(***************************************************************************)
\* Option<U64>: eth_tx.transaction_index
Some(n) == [some |-> TRUE, v |-> n]

None == [some |-> FALSE, v |-> 0]

NoResult == [tag |-> "None", err |-> "-"]

Ok == [tag |-> "Ok", err |-> "-"]

Err(e) == [tag |-> "Err", err |-> e]

Panic(msg) == [tag |-> "Panic", err |-> msg]

\* eth_types::Transaction: of its fields the builder reads here only
\* transaction_index
EthTx(transaction_index) == [transaction_index |-> transaction_index]

\* eth_types::Transaction::default()
NoEthTx == EthTx(None)

\* GethExecTrace: failed and l1_fee (struct_logs is read step by step)
GethExecTrace(failed, l1_fee) == [failed |-> failed, l1_fee |-> l1_fee]

\* GethExecTrace::default()
NoGethTrace == GethExecTrace(FALSE, 0)

\* Transaction::l1_fee(): the fee recomputed from the transaction and the
\* state; one value stands for it
TxL1Fee(t) == 0

\* the l1_fee a trace may declare for t: the recomputed fee or another one
L1Fees(t) == {TxL1Fee(t), TxL1Fee(t) + 1}

\* a faulty handle_block_inner: the clone keeps the index it was supplied with
CloneKeepsIndex(etx, n_txs) == etx

\* a faulty handle_block_inner: only a missing index is replaced by
\* block.txs.len()
CloneFillsMissingIndex(etx, n_txs) ==
    IF etx.transaction_index.some THEN etx
    ELSE [etx EXCEPT !.transaction_index = Some(n_txs)]

\* handle_block_inner: tx.clone() with transaction_index overwritten by
\* Some(block.txs.len())
CloneWithIndex(etx, n_txs) == [etx EXCEPT !.transaction_index = Some(n_txs)]

\* a faulty new_tx: the call_id is the value a fresh counter has, whatever
\* the block's counter is
NewTxFreshCounter(cm, c, transaction_index, is_success) ==
    IF ~transaction_index.some
        THEN [err |-> IncompleteBlock, call_map |-> cm, tx |-> NoTx]
    ELSE [err |-> "-",
          call_map |-> MapInsert(cm, 1, <<transaction_index.v, 0>>),
          tx |-> TransactionNew(1, is_success)]

\* CircuitInputBuilder::new_tx: the call_id is the counter; the `?` on the
\* missing index is evaluated before call_map.insert is called
NewTx(cm, c, transaction_index, is_success) ==
    IF ~transaction_index.some
        THEN [err |-> IncompleteBlock, call_map |-> cm, tx |-> NoTx]
    ELSE [err |-> "-",
          call_map |-> MapInsert(cm, c, <<transaction_index.v, 0>>),
          tx |-> TransactionNew(c, is_success)]

\* set_value_ops_call_context_rwc_eor, the lookup of one placeholder:
\* call_map.get(&op.call_id).expect(..), then block.txs[tx_idx].calls()[call_idx]
RwcEorLookupPanics(op, cm, txs_) ==
    \/ op.call_id \notin DOMAIN cm
    \/ cm[op.call_id][1] + 1 > Len(txs_)
    \/ cm[op.call_id][2] + 1 > Len(txs_[cm[op.call_id][1] + 1].calls)

\* a faulty lookup: the call index of the call_map entry is ignored and the
\* transaction's root call is read
RwcEorLookupRootCall(op, cm, txs_) ==
    txs_[cm[op.call_id][1] + 1].calls[1].rw_counter_end_of_reversion

RwcEorLookup(op, cm, txs_) ==
    txs_[cm[op.call_id][1] + 1].calls[cm[op.call_id][2] + 1]
        .rw_counter_end_of_reversion

\* a faulty loop body: the matches! on the field is missing
SetValueOpAnyField(op, cm, txs_) ==
    [op EXCEPT !.value = RwcEorLookup(op, cm, txs_)]

\* set_value_ops_call_context_rwc_eor, the body of its loop for one operation
SetValueOp(op, cm, txs_) ==
    IF op.field = "RwCounterEndOfReversion"
        THEN [op EXCEPT !.value = RwcEorLookup(op, cm, txs_)]
    ELSE op

\* a faulty resolution: the placeholders are taken out of the sub-log and
\* inserted again, resolved, behind the other operations
SetValueOpsReinserted(call_context, cm, txs_) ==
    LET IsEor(op) == op.field = "RwCounterEndOfReversion"
        NotEor(op) == ~IsEor(op)
        eors == SelectSeq(call_context, IsEor)
    IN  SelectSeq(call_context, NotEor)
            \o [i \in 1..Len(eors) |-> SetValueOp(eors[i], cm, txs_)]

\* set_value_ops_call_context_rwc_eor: the call_context sub-log after the loop
SetValueOpsCallContextRwcEor(call_context, cm, txs_) ==
    [i \in 1..Len(call_context) |-> SetValueOp(call_context[i], cm, txs_)]

SetValueOpsPanics(call_context, cm, txs_) ==
    \E i \in 1..Len(call_context) :
        /\ call_context[i].field = "RwCounterEndOfReversion"
        /\ RwcEorLookupPanics(call_context[i], cm, txs_)

\* set_value_ops_call_context_rwc_eor, when it panics: the operations before
\* the first placeholder whose lookup panics are already patched
SetValueOpsUntilPanic(call_context, cm, txs_) ==
    LET bad(i) == /\ call_context[i].field = "RwCounterEndOfReversion"
                  /\ RwcEorLookupPanics(call_context[i], cm, txs_)
        first  == CHOOSE i \in 1..Len(call_context) :
                      bad(i) /\ \A j \in 1..(i - 1) : ~bad(j)
    IN  [i \in 1..Len(call_context) |->
             IF i < first THEN SetValueOp(call_context[i], cm, txs_)
             ELSE call_context[i]]

\* a faulty sanity check: the mismatch is returned as an error
L1FeeSanityCheckFatal(tx_l1_fee, trace_l1_fee) ==
    [err |-> IF tx_l1_fee # trace_l1_fee
                 THEN "InternalError(l1 fee mismatch)" ELSE "-",
     log |-> <<>>]

\* handle_tx: the sanity check of the L1 fee; a mismatch is logged
L1FeeSanityCheck(tx_l1_fee, trace_l1_fee) ==
    [err |-> "-",
     log |-> IF tx_l1_fee # trace_l1_fee
                 THEN <<"Mismatch tx_l1_fee">> ELSE <<>>]

\* handle_tx up to the loop over the trace, gen_begin_tx_ops succeeding:
\* new_tx, the sanity check, TransactionContext::new, gen_begin_tx_ops; the
\* error ("-" for none) and what the builder holds then
HandleTxPrologue(cont, c, cm, n_txs, etx, trace, is_last_tx) ==
    LET r   == NewTx(cm, c, etx.transaction_index, ~trace.failed)
        chk == L1FeeSanityCheck(TxL1Fee(r.tx), trace.l1_fee)
        tc  == TransactionContextNew(trace.failed, is_last_tx)
        m   == GenBeginTxOps(StateRef(cont, c, r.call_map, r.tx, tc, n_txs))
    IN  IF r.err # "-"
            THEN [err |-> r.err, container |-> cont, rwc |-> c,
                  call_map |-> r.call_map, tx |-> NoTx, tx_ctx |-> NoTxCtx,
                  log |-> <<>>]
        ELSE IF chk.err # "-"
            THEN [err |-> chk.err, container |-> cont, rwc |-> c,
                  call_map |-> r.call_map, tx |-> r.tx, tx_ctx |-> NoTxCtx,
                  log |-> chk.log]
        ELSE [err |-> "-", container |-> m.container, rwc |-> m.rwc,
              call_map |-> m.call_map, tx |-> m.tx, tx_ctx |-> m.tx_ctx,
              log |-> chk.log]

\* a faulty driver: every block is handled as handle_block handles it
HandleRwcReversionAlways(last) == TRUE

\* gen_inputs_from_state_multi: the handle_rwc_reversion it passes
HandleRwcReversion(last) == last

\* gen_inputs_from_state_multi: the check_last_tx it passes
CheckLastTx(last) == last

\* a faulty handle_block_inner: check_last_tx is not looked at
IsLastTxAnyBlock(check_last_tx, i, n) == i + 1 = n

\* handle_block_inner: the is_last_tx it passes to handle_tx
IsLastTx(check_last_tx, i, n) == check_last_tx /\ i + 1 = n

\* the history of is_last_tx: nothing was handled or skipped yet
NoLastTxLog == [marked |-> 0, last_position |-> "-"]

\* the transaction at position i of a block of n is the last one of the
\* final block
AtLastPosition(last, i, n) == last /\ i + 1 = n

\* the history after handle_block_inner skipped the transaction at i
LogSkip(log, last, i, n) ==
    IF AtLastPosition(last, i, n) THEN [log EXCEPT !.last_position = "skipped"]
    ELSE log

\* the history after handle_block_inner called handle_tx for the
\* transaction at i
LogHandleTx(log, last, i, n) ==
    [marked |-> log.marked
                    + (IF IsLastTx(CheckLastTx(last), i, n) THEN 1 ELSE 0),
     last_position |-> IF AtLastPosition(last, i, n) THEN "handled"
                       ELSE log.last_position]

\* a faulty cap: > for >=
SkipTxOffByOne(n_txs, max_txs) == n_txs > max_txs

\* handle_block_inner: the max_txs cap
SkipTx(n_txs, max_txs) == n_txs >= max_txs

\* set_end_block: total_rws = rwc - 1
TotalRws(c) == c - 1

\* a faulty dynamic sizing: max_rws == 0 selects total_rws + 1
EffectiveMaxRwsOneRow(max_rws, total_rws) ==
    IF max_rws = 0 THEN total_rws + 1 ELSE max_rws

\* set_end_block: max_rws == 0 selects total_rws + 2
EffectiveMaxRws(max_rws, total_rws) ==
    IF max_rws = 0 THEN total_rws + 2 ELSE max_rws

\* a faulty capacity check: the extra Start row is forgotten
RwsNotEnoughCheckNoStartRow(total_rws, max_rws) == total_rws > max_rws

\* a faulty set_end_block: the capacity check is left out
RwsNotEnoughCheckLeftOut(total_rws, max_rws) == FALSE

\* set_end_block: the capacity check
RwsNotEnoughCheck(total_rws, max_rws) == total_rws + 1 > max_rws

\* a faulty closure push_op: the StartOp is inserted and no reference to it
\* is pushed to the step
PushStartOpUnreferenced(s, c) ==
    [container |-> ContainerInsert(s.container, "start",
                                   Operation(c, "READ", "-", 0, 0)),
     refs |-> s.refs]

\* set_end_block: the closure push_op, which inserts a StartOp with the
\* counter it is given and pushes its reference to the step; s is
\* [container, refs]
PushStartOp(s, c) ==
    LET cont == ContainerInsert(s.container, "start",
                                Operation(c, "READ", "-", 0, 0))
    IN  [container |-> cont,
         refs |-> Append(s.refs, OperationRef(cont, "start"))]

\* faulty Start operations: the second takes max_rws as its counter
PushStartOpsNoSubtraction(s, max_rws, total_rws) ==
    PushStartOp(PushStartOp(s, 1), max_rws)

\* faulty Start operations: the counter is subtracted where total_rws is meant
PushStartOpsFromCounter(s, max_rws, total_rws) ==
    PushStartOp(PushStartOp(s, 1), max_rws - (total_rws + 1))

\* set_end_block: the two Start operations
PushStartOps(s, max_rws, total_rws) ==
    PushStartOp(PushStartOp(s, 1), max_rws - total_rws)

\* faulty end-block reads: the storage read is inserted with the counter
\* set_end_block started with, whatever the TxId read took
EndBlockReadsStaleCounter(cont, c, cm, txs_, refs) ==
    LET m0 == [StateRef(cont, c, cm, NoTx, NoTxCtx, Len(txs_))
                   EXCEPT !.refs = refs]
        m1 == IF txs_ # <<>>
                  THEN CallContextRead(m0, Last(txs_).calls[1].call_id,
                                       "TxId", Len(txs_))
              ELSE m0
        cont2 == ContainerInsert(m1.container, "storage",
                                 Operation(c, "READ", "-", 0, 0))
    IN  [m1 EXCEPT !.container = cont2,
                   !.rwc = m1.rwc + 1,
                   !.refs = Append(@, OperationRef(cont2, "storage"))]

\* faulty end-block reads: the storage read is inserted into the container
\* directly, as the Start operations are, and the counter stays
EndBlockReadsUncounted(cont, c, cm, txs_, refs) ==
    LET m0 == [StateRef(cont, c, cm, NoTx, NoTxCtx, Len(txs_))
                   EXCEPT !.refs = refs]
        m1 == IF txs_ # <<>>
                  THEN CallContextRead(m0, Last(txs_).calls[1].call_id,
                                       "TxId", Len(txs_))
              ELSE m0
        cont2 == ContainerInsert(m1.container, "storage",
                                 Operation(m1.rwc, "READ", "-", 0, 0))
    IN  [m1 EXCEPT !.container = cont2,
                   !.refs = Append(@, OperationRef(cont2, "storage"))]

\* faulty end-block reads: the TxId read of the last transaction is missing
EndBlockReadsNoTxId(cont, c, cm, txs_, refs) ==
    LET m0 == [StateRef(cont, c, cm, NoTx, NoTxCtx, Len(txs_))
                   EXCEPT !.refs = refs]
    IN  PushOp(m0, "storage", "READ", "-", 0, 0)

\* set_end_block: the end-block reads, inserted through the mediator built on
\* a dummy transaction; the references go to end_block_last
EndBlockReads(cont, c, cm, txs_, refs) ==
    LET m0 == [StateRef(cont, c, cm, NoTx, NoTxCtx, Len(txs_))
                   EXCEPT !.refs = refs]
        dummy_tx_id == Len(txs_)
        m1 == IF txs_ # <<>>
                  THEN CallContextRead(m0, Last(txs_).calls[1].call_id,
                                       "TxId", dummy_tx_id)
              ELSE m0
    IN  PushOp(m1, "storage", "READ", "-", 0, 0)

\* a faulty set_end_block: total_rws is taken from the counter before the
\* end-block reads are inserted
SetEndBlockEarlyTotal(cont, c, cm, txs_, bs, params) ==
    LET end_block_not_last == [bs.end_block_not_last EXCEPT !.rwc = c]
        end_block_last     == [bs.end_block_last EXCEPT !.rwc = c]
        total_rws == TotalRws(c)
        m         == EndBlockReads(cont, c, cm, txs_,
                                   end_block_last.bus_mapping_instance)
        max_rws   == EffectiveMaxRws(params.max_rws, total_rws)
    IN  IF RwsNotEnoughCheck(total_rws, max_rws)
            THEN [err |-> RwsNotEnough, container |-> m.container,
                  rwc |-> m.rwc, block_steps |-> bs]
        ELSE LET s == PushStartOps([container |-> m.container, refs |-> m.refs],
                                   max_rws, total_rws)
             IN  [err |-> "-", container |-> s.container, rwc |-> m.rwc,
                  block_steps |->
                      [end_block_not_last |-> end_block_not_last,
                       end_block_last |->
                           [end_block_last EXCEPT
                                !.bus_mapping_instance = s.refs]]]

\* set_end_block as a function of the builder: the error ("-" for Ok(())),
\* and the container, counter and block_steps it leaves
SetEndBlock(cont, c, cm, txs_, bs, params) ==
    LET end_block_not_last == [bs.end_block_not_last EXCEPT !.rwc = c]
        end_block_last     == [bs.end_block_last EXCEPT !.rwc = c]
        m         == EndBlockReads(cont, c, cm, txs_,
                                   end_block_last.bus_mapping_instance)
        total_rws == TotalRws(m.rwc)
        max_rws   == EffectiveMaxRws(params.max_rws, total_rws)
    IN  IF RwsNotEnoughCheck(total_rws, max_rws)
            THEN [err |-> RwsNotEnough, container |-> m.container,
                  rwc |-> m.rwc, block_steps |-> bs]
        ELSE LET s == PushStartOps([container |-> m.container, refs |-> m.refs],
                                   max_rws, total_rws)
             IN  [err |-> "-", container |-> s.container, rwc |-> m.rwc,
                  block_steps |->
                      [end_block_not_last |-> end_block_not_last,
                       end_block_last |->
                           [end_block_last EXCEPT
                                !.bus_mapping_instance = s.refs]]]

(***************************************************************************)
(* The build as a state machine.                                           *)
(***************************************************************************)
\* the values of circuits_params.max_rws tried: dynamic sizing, a small
\* fixed capacity, the default
MaxRwsChoices == {0, SmallMaxRws, DefaultMaxRws}

\* the values of circuits_params.max_txs tried: the default, one less (every
\* transaction is skipped) and one more
MaxTxsChoices == {DefaultMaxTxs - 1, DefaultMaxTxs, DefaultMaxTxs + 1}

\* Word::default(), the withdraw roots of a block as constructed
DefaultWord == [of |-> "default", commits |-> 0]

\* sdb.get_storage(&MESSAGE_QUEUE, &WITHDRAW_TRIE_ROOT_SLOT): the value the
\* slot has in the state after the commits made so far
GetStorage(sdb_) == [of |-> "get_storage", commits |-> sdb_.commits]

\* sdb.get_committed_storage(&MESSAGE_QUEUE, &WITHDRAW_TRIE_ROOT_SLOT)
GetCommittedStorage(sdb_) ==
    [of |-> "get_committed_storage", commits |-> sdb_.commits]

\* BlockSteps::default()
NoBlockSteps ==
    [end_block_not_last |-> [rwc |-> 0, bus_mapping_instance |-> <<>>],
     end_block_last     |-> [rwc |-> 0, bus_mapping_instance |-> <<>>]]

\* the transactions handle_block may be given for position i of a block: with
\* the index of the position, or without an index
EthTxs(i) == {EthTx(None), EthTx(Some(i))}

\* the traces handle_tx may be given: failed or not, with the L1 fee the
\* transaction recomputes or another one
GethExecTraces ==
    {GethExecTrace(failed, fee) : failed \in BOOLEAN, fee \in L1Fees(NoTx)}

\* no free function is being called
NoArgs == [fn |-> "-"]

\* CircuitInputBuilder::new_from_headers: an empty block, BlockContext::new()
\* (the counter starts at 1), and the inputs of the build
Init ==
    /\ circuits_params \in [max_rws : MaxRwsChoices, max_txs : MaxTxsChoices]
    /\ is_last = FALSE
    /\ num_block_txs = 0
    /\ pc = "multi"
    /\ idx = 0
    /\ tx_index = 0
    /\ index = 0
    /\ rwc = 1
    /\ call_map = EmptyMap
    /\ container = EmptyContainer
    /\ txs = <<>>
    /\ block_steps = NoBlockSteps
    /\ withdraw_root = DefaultWord
    /\ prev_withdraw_root = DefaultWord
    /\ last_tx_log = NoLastTxLog
    /\ region = NoRegion
    /\ gate_offset = 0
    /\ gate_log = <<>>
    /\ eth_tx = NoEthTx
    /\ geth_trace = NoGethTrace
    /\ tx = NoTx
    /\ tx_ctx = NoTxCtx
    /\ sdb = [commits |-> 0]
    /\ result = NoResult
    /\ raised = "-"
    /\ n_set_value_ops = 0
    /\ n_set_end_block = 0
    /\ fn_args = NoArgs
    /\ fn_result = NoResult

\* the mediator over the builder's state (state_ref)
Mediator == StateRef(container, rwc, call_map, tx, tx_ctx, Len(txs))

\* the builder takes over what the mediator changed
Commit(m) ==
    /\ container' = m.container
    /\ rwc' = m.rwc
    /\ call_map' = m.call_map
    /\ tx' = m.tx
    /\ tx_ctx' = m.tx_ctx

\* handle_tx is past gen_begin_tx_ops, or returns: the transaction is not
\* read any more, and of the trace only struct_logs, step by step
ArgsDropped ==
    /\ eth_tx' = NoEthTx
    /\ geth_trace' = NoGethTrace

\* the build returns Err(e)
Fail(e) ==
    /\ pc' = "failed"
    /\ result' = Err(e)

\* gen_inputs_from_state_multi: the loop takes the next block of the batch
\* (1..MaxBlocks blocks of 0..MaxBlockTxs transactions; the batch is read
\* block by block) and enters handle_block_inner(.., is_last, is_last); with
\* one block this is handle_block, which passes (true, true)
MultiNextBlock ==
    /\ pc = "multi"
    /\ ~is_last
    /\ idx < MaxBlocks
    /\ \E n \in 0..MaxBlockTxs, last \in BOOLEAN :
        /\ idx + 1 = MaxBlocks => last
        /\ num_block_txs' = n
        /\ is_last' = last
    /\ pc' = "tx_loop"
    /\ tx_index' = 0
    /\ UNCHANGED <<region, gate_offset, gate_log,
                   withdraw_root, prev_withdraw_root, last_tx_log,
                   circuits_params, idx, index, rwc,
                   call_map, container, txs, block_steps, tx, tx_ctx, sdb,
                   result, raised, n_set_value_ops, n_set_end_block,
                   eth_tx, geth_trace, fn_args, fn_result>>

\* gen_inputs_from_state_multi: the loop is over, Ok(builder)
MultiDone ==
    /\ pc = "multi"
    /\ is_last
    /\ pc' = "done"
    /\ result' = Ok
    /\ UNCHANGED <<region, gate_offset, gate_log,
                   withdraw_root, prev_withdraw_root, last_tx_log,
                   circuits_params, is_last, num_block_txs, idx, tx_index, index,
                   rwc, call_map, container, txs, block_steps, tx, tx_ctx,
                   sdb, raised, n_set_value_ops, n_set_end_block,
                   eth_tx, geth_trace, fn_args, fn_result>>

\* a faulty loop: a skipped transaction is visited again
HandleBlockSkipTxAgain ==
    /\ pc = "tx_loop"
    /\ tx_index < num_block_txs
    /\ SkipTx(Len(txs), circuits_params.max_txs)
    /\ UNCHANGED vars

\* handle_block_inner: a transaction beyond max_txs is skipped (continue)
HandleBlockSkipTx ==
    /\ pc = "tx_loop"
    /\ tx_index < num_block_txs
    /\ SkipTx(Len(txs), circuits_params.max_txs)
    /\ tx_index' = tx_index + 1
    /\ last_tx_log' = LogSkip(last_tx_log, is_last, tx_index, num_block_txs)
    /\ UNCHANGED <<region, gate_offset, gate_log, withdraw_root, prev_withdraw_root,
                   circuits_params, is_last, num_block_txs, pc, idx, index, rwc,
                   call_map, container, txs, block_steps, tx, tx_ctx, sdb,
                   result, raised, n_set_value_ops, n_set_end_block,
                   eth_tx, geth_trace, fn_args, fn_result>>

\* handle_block_inner: geth_traces[tx_index] panics when the list of traces
\* is shorter than the list of transactions
HandleBlockNoTrace ==
    /\ pc = "tx_loop"
    /\ tx_index < num_block_txs
    /\ ~SkipTx(Len(txs), circuits_params.max_txs)
    /\ pc' = "failed"
    /\ result' = Panic("index out of bounds")
    /\ UNCHANGED <<region, gate_offset, gate_log,
                   withdraw_root, prev_withdraw_root, last_tx_log,
                   circuits_params, is_last, num_block_txs, idx, tx_index, index,
                   rwc, call_map, container, txs, block_steps, eth_tx,
                   geth_trace, tx, tx_ctx, sdb, raised, n_set_value_ops,
                   n_set_end_block, fn_args, fn_result>>

\* handle_block_inner gives handle_tx the transaction with its index
\* overwritten by block.txs.len(); handle_tx up to the loop over the trace:
\* new_tx, the L1 fee sanity check, TransactionContext::new, gen_begin_tx_ops
HandleTxBegin ==
    /\ pc = "tx_loop"
    /\ tx_index < num_block_txs
    /\ ~SkipTx(Len(txs), circuits_params.max_txs)
    /\ \E etx \in EthTxs(tx_index), trace \in GethExecTraces :
        LET r == HandleTxPrologue(
                     container, rwc, call_map, Len(txs),
                     CloneWithIndex(etx, Len(txs)), trace,
                     IsLastTx(CheckLastTx(is_last), tx_index, num_block_txs))
        IN  /\ Commit(r)
            /\ IF r.err # "-"
                   THEN /\ Fail(r.err)
                        /\ ArgsDropped
                        /\ UNCHANGED index
               ELSE /\ pc' = "steps"
                    /\ index' = 0
                    /\ eth_tx' = etx
                    /\ geth_trace' = trace
                    /\ UNCHANGED result
    /\ last_tx_log' = LogHandleTx(last_tx_log, is_last, tx_index,
                                  num_block_txs)
    /\ UNCHANGED <<region, gate_offset, gate_log, withdraw_root, prev_withdraw_root,
                   circuits_params, is_last, num_block_txs, idx, tx_index, txs,
                   block_steps, sdb, raised, n_set_value_ops, n_set_end_block, fn_args,
                   fn_result>>

\* handle_tx: gen_begin_tx_ops returns an error, which `?` returns
HandleTxBeginErr ==
    /\ pc = "tx_loop"
    /\ tx_index < num_block_txs
    /\ ~SkipTx(Len(txs), circuits_params.max_txs)
    /\ \E etx \in EthTxs(tx_index), trace \in GethExecTraces, e \in GenErrors :
        LET r  == NewTx(call_map, rwc,
                        CloneWithIndex(etx, Len(txs)).transaction_index,
                        ~trace.failed)
            tc == TransactionContextNew(
                      trace.failed,
                      IsLastTx(CheckLastTx(is_last), tx_index, num_block_txs))
        IN  /\ r.err = "-"
            /\ L1FeeSanityCheck(TxL1Fee(r.tx), trace.l1_fee).err = "-"
            /\ ArgsDropped
            /\ call_map' = r.call_map
            /\ tx' = r.tx
            /\ tx_ctx' = tc
            /\ raised' = e
            /\ Fail(e)
    /\ last_tx_log' = LogHandleTx(last_tx_log, is_last, tx_index,
                                  num_block_txs)
    /\ UNCHANGED <<region, gate_offset, gate_log, withdraw_root, prev_withdraw_root,
                   circuits_params, is_last, num_block_txs, idx, tx_index, index,
                   rwc, container, txs, block_steps, sdb, n_set_value_ops,
                   n_set_end_block, fn_args, fn_result>>

\* handle_tx: one iteration of the loop over geth_trace.struct_logs
HandleTxStep ==
    /\ pc = "steps"
    /\ \E op \in OpcodeIds :
        /\ StepFits(op, Mediator, index, SumStepOps(txs))
        /\ Commit(GenAssociatedOps(op, Mediator))
    /\ index' = index + 1
    /\ ArgsDropped
    /\ UNCHANGED <<region, gate_offset, gate_log,
                   withdraw_root, prev_withdraw_root, last_tx_log,
                   circuits_params, is_last, num_block_txs, pc, idx, tx_index,
                   txs, block_steps, sdb, result, raised, n_set_value_ops,
                   n_set_end_block, fn_args,
                   fn_result>>

\* a faulty loop: the error of gen_associated_ops is dropped and the loop
\* goes on with the next step
HandleTxStepErrSwallowed ==
    /\ pc = "steps"
    /\ \E op \in OpcodeIds, e \in GenErrors :
        /\ StepFits(op, Mediator, index, SumStepOps(txs))
        /\ index + 1 < MaxSteps
        /\ raised' = e
    /\ index' = index + 1
    /\ ArgsDropped
    /\ UNCHANGED <<region, gate_offset, gate_log,
                   withdraw_root, prev_withdraw_root, last_tx_log,
                   circuits_params, is_last, num_block_txs, pc, idx, tx_index,
                   rwc, call_map, container, txs, block_steps, tx, tx_ctx,
                   sdb, result, n_set_value_ops, n_set_end_block, fn_args,
                   fn_result>>

\* handle_tx: gen_associated_ops returns an error, before it inserted
\* anything or (SSTORE) after its first operation
HandleTxStepErr ==
    /\ pc = "steps"
    /\ \E op \in OpcodeIds, e \in GenErrors, partial \in BOOLEAN :
        /\ StepFits(op, Mediator, index, SumStepOps(txs))
        /\ partial => op = "SSTORE"
        /\ Commit(IF partial THEN ReadRwcEor(Mediator, CurrentCall(Mediator))
                  ELSE Mediator)
        /\ raised' = e
        /\ Fail(e)
    /\ ArgsDropped
    /\ UNCHANGED <<region, gate_offset, gate_log,
                   withdraw_root, prev_withdraw_root, last_tx_log,
                   circuits_params, is_last, num_block_txs, idx, tx_index, index,
                   txs, block_steps, sdb, n_set_value_ops, n_set_end_block, fn_args,
                   fn_result>>

\* the trace is consumed: it is empty, or its last step ended the root call
TraceConsumed == index = 0 \/ tx_ctx.call_stack = <<>>

\* handle_tx after the loop: gen_end_tx_ops and the push of the end-tx step
HandleTxEnd ==
    /\ pc = "steps"
    /\ TraceConsumed
    /\ Commit(GenEndTxOps(Mediator))
    /\ pc' = "commit"
    /\ ArgsDropped
    /\ UNCHANGED <<region, gate_offset, gate_log,
                   withdraw_root, prev_withdraw_root, last_tx_log,
                   circuits_params, is_last, num_block_txs, idx, tx_index, index,
                   txs, block_steps, sdb, result, raised,
                   n_set_value_ops, n_set_end_block, fn_args, fn_result>>

\* a faulty handle_tx: the state database is not committed
HandleTxCommitSkipped ==
    /\ pc = "commit"
    /\ pc' = "push"
    /\ UNCHANGED <<region, gate_offset, gate_log,
                   withdraw_root, prev_withdraw_root, last_tx_log,
                   circuits_params, is_last, num_block_txs, idx, tx_index, index,
                   rwc, call_map, container, txs, block_steps, eth_tx,
                   geth_trace, tx, tx_ctx, sdb, result, raised,
                   n_set_value_ops, n_set_end_block, fn_args, fn_result>>

\* handle_tx: self.sdb.commit_tx()
HandleTxCommit ==
    /\ pc = "commit"
    /\ sdb' = [sdb EXCEPT !.commits = @ + 1]
    /\ pc' = "push"
    /\ UNCHANGED <<region, gate_offset, gate_log,
                   withdraw_root, prev_withdraw_root, last_tx_log,
                   circuits_params, is_last, num_block_txs, idx, tx_index, index,
                   rwc, call_map, container, txs, block_steps, eth_tx,
                   geth_trace, tx, tx_ctx, result, raised, n_set_value_ops,
                   n_set_end_block, fn_args, fn_result>>

\* a faulty handle_tx: the transaction takes the place of the last one of
\* block.txs
HandleTxPushInPlace ==
    /\ pc = "push"
    /\ txs' = IF txs = <<>> THEN <<tx>> ELSE Append(Front(txs), tx)
    /\ tx' = NoTx
    /\ tx_ctx' = NoTxCtx
    /\ pc' = "tx_loop"
    /\ tx_index' = tx_index + 1
    /\ index' = 0
    /\ UNCHANGED <<region, gate_offset, gate_log,
                   withdraw_root, prev_withdraw_root, last_tx_log,
                   circuits_params, is_last, num_block_txs, idx, rwc, call_map,
                   container, block_steps, eth_tx, geth_trace, sdb, result,
                   raised, n_set_value_ops, n_set_end_block, fn_args,
                   fn_result>>

\* handle_tx: self.block.txs.push(tx) and Ok(()); handle_block_inner goes on
\* with the next transaction
HandleTxPush ==
    /\ pc = "push"
    /\ txs' = Append(txs, tx)
    /\ tx' = NoTx
    /\ tx_ctx' = NoTxCtx
    /\ pc' = "tx_loop"
    /\ tx_index' = tx_index + 1
    /\ index' = 0
    /\ UNCHANGED <<region, gate_offset, gate_log,
                   withdraw_root, prev_withdraw_root, last_tx_log,
                   circuits_params, is_last, num_block_txs, idx, rwc, call_map,
                   container, block_steps, eth_tx, geth_trace, sdb, result,
                   raised, n_set_value_ops, n_set_end_block, fn_args,
                   fn_result>>

\* handle_tx: gen_end_tx_ops returns an error
HandleTxEndErr ==
    /\ pc = "steps"
    /\ TraceConsumed
    /\ \E e \in GenErrors :
        /\ raised' = e
        /\ Fail(e)
    /\ ArgsDropped
    /\ UNCHANGED <<region, gate_offset, gate_log,
                   withdraw_root, prev_withdraw_root, last_tx_log,
                   circuits_params, is_last, num_block_txs, idx, tx_index, index,
                   rwc, call_map, container, txs, block_steps, tx, tx_ctx,
                   sdb, n_set_value_ops, n_set_end_block, fn_args,
                   fn_result>>

\* handle_block_inner: the loop over the transactions is over; without
\* handle_rwc_reversion the call returns Ok(()) to the batch loop
HandleBlockLoopExit ==
    /\ pc = "tx_loop"
    /\ tx_index = num_block_txs
    /\ IF HandleRwcReversion(is_last)
           THEN pc' = "reversion" /\ idx' = idx
       ELSE pc' = "multi" /\ idx' = idx + 1
    /\ UNCHANGED <<region, gate_offset, gate_log,
                   withdraw_root, prev_withdraw_root, last_tx_log,
                   circuits_params, is_last, num_block_txs, tx_index, index, rwc,
                   call_map, container, txs, block_steps, tx, tx_ctx, sdb,
                   result, raised, n_set_value_ops, n_set_end_block,
                   eth_tx, geth_trace, fn_args, fn_result>>

\* a faulty resolution: a placeholder without a call_map entry makes the
\* build return an error
HandleBlockSetValueOpsReturnsErr ==
    /\ pc = "reversion"
    /\ n_set_value_ops' = n_set_value_ops + 1
    /\ IF SetValueOpsPanics(container["call_context"], call_map, txs)
           THEN /\ Fail("InternalError(call_id not found in call_map)")
                /\ UNCHANGED container
       ELSE /\ pc' = "end_block"
            /\ container' =
                   [container EXCEPT !["call_context"] =
                        SetValueOpsCallContextRwcEor(@, call_map, txs)]
            /\ UNCHANGED result
    /\ UNCHANGED <<region, gate_offset, gate_log,
                   withdraw_root, prev_withdraw_root, last_tx_log,
                   circuits_params, is_last, num_block_txs, idx, tx_index, index,
                   rwc, call_map, txs, block_steps, eth_tx, geth_trace, tx,
                   tx_ctx, sdb, raised, n_set_end_block, fn_args, fn_result>>

\* handle_block_inner: self.set_value_ops_call_context_rwc_eor(), which
\* panics at the first placeholder whose call is unknown
HandleBlockSetValueOps ==
    /\ pc = "reversion"
    /\ n_set_value_ops' = n_set_value_ops + 1
    /\ IF SetValueOpsPanics(container["call_context"], call_map, txs)
           THEN /\ pc' = "failed"
                /\ result' = Panic("call_id not found in call_map")
                /\ container' =
                       [container EXCEPT !["call_context"] =
                            SetValueOpsUntilPanic(@, call_map, txs)]
       ELSE /\ pc' = "end_block"
            /\ container' =
                   [container EXCEPT !["call_context"] =
                        SetValueOpsCallContextRwcEor(@, call_map, txs)]
            /\ UNCHANGED result
    /\ UNCHANGED <<region, gate_offset, gate_log,
                   withdraw_root, prev_withdraw_root, last_tx_log,
                   circuits_params, is_last, num_block_txs, idx, tx_index, index,
                   rwc, call_map, txs, block_steps, eth_tx, geth_trace, tx,
                   tx_ctx, sdb, raised, n_set_end_block, fn_args, fn_result>>

\* a faulty set_end_block: the block takes the withdraw roots before the
\* capacity check
HandleBlockSetEndBlockEagerRoots ==
    /\ pc = "end_block"
    /\ n_set_end_block' = n_set_end_block + 1
    /\ LET r == SetEndBlock(container, rwc, call_map, txs, block_steps,
                            circuits_params)
       IN  /\ container' = r.container
           /\ rwc' = r.rwc
           /\ block_steps' = r.block_steps
           /\ withdraw_root' = GetStorage(sdb)
           /\ prev_withdraw_root' = GetCommittedStorage(sdb)
           /\ IF r.err # "-"
                  THEN Fail(r.err) /\ idx' = idx
              ELSE pc' = "multi" /\ idx' = idx + 1 /\ UNCHANGED result
    /\ UNCHANGED <<region, gate_offset, gate_log, last_tx_log,
                   circuits_params, is_last, num_block_txs, tx_index, index,
                   call_map, txs, tx, tx_ctx, sdb, raised, n_set_value_ops,
                   eth_tx, geth_trace, fn_args, fn_result>>

\* handle_block_inner: self.set_end_block()?, then Ok(()) to the batch loop;
\* a successful set_end_block gives the block the withdraw roots it read
\* from the state
HandleBlockSetEndBlock ==
    /\ pc = "end_block"
    /\ n_set_end_block' = n_set_end_block + 1
    /\ LET r == SetEndBlock(container, rwc, call_map, txs, block_steps,
                            circuits_params)
       IN  /\ container' = r.container
           /\ rwc' = r.rwc
           /\ block_steps' = r.block_steps
           /\ IF r.err # "-"
                  THEN /\ Fail(r.err)
                       /\ idx' = idx
                       /\ UNCHANGED <<withdraw_root, prev_withdraw_root>>
              ELSE /\ pc' = "multi"
                   /\ idx' = idx + 1
                   /\ withdraw_root' = GetStorage(sdb)
                   /\ prev_withdraw_root' = GetCommittedStorage(sdb)
                   /\ UNCHANGED result
    /\ UNCHANGED <<region, gate_offset, gate_log, last_tx_log,
                   circuits_params, is_last, num_block_txs, tx_index, index,
                   call_map, txs, tx, tx_ctx, sdb, raised, n_set_value_ops,
                   eth_tx, geth_trace, fn_args, fn_result>>

Next ==
    \/ MultiNextBlock
    \/ MultiDone
    \/ HandleBlockSkipTx
    \/ HandleBlockNoTrace
    \/ HandleTxBegin
    \/ HandleTxBeginErr
    \/ HandleTxStep
    \/ HandleTxStepErr
    \/ HandleTxEnd
    \/ HandleTxEndErr
    \/ HandleTxCommit
    \/ HandleTxPush
    \/ HandleBlockLoopExit
    \/ HandleBlockSetValueOps
    \/ HandleBlockSetEndBlock

Spec == Init /\ [][Next]_vars

(***************************************************************************)
(* Finalize on its own.  set_value_ops_call_context_rwc_eor and            *)
(* set_end_block are public methods, as state_ref is: the builder they are *)
(* called on may hold a log that was not built by handle_tx.               *)
(***************************************************************************)
\* call_context operations in the log handed to finalize
MaxPlaceholders == 3

\* the transaction of the builder handed to finalize: the root call, with
\* call_id 1, and an inner call, with call_id 3, reverted, whose reversion
\* ended at counter 5
FinalizeTx ==
    [TransactionNew(1, TRUE) EXCEPT
         !.calls = Append(@, [Call(3, FALSE) EXCEPT
                                  !.rw_counter_end_of_reversion = 5])]

\* the call_context operations of such a log, as <<field, call_id, value>>:
\* the placeholder of the root call, the placeholder of the inner call, the
\* TxId read of the root call
FinalizeOps ==
    {<<"RwCounterEndOfReversion", FinalizeTx.calls[1].call_id, 0>>,
     <<"RwCounterEndOfReversion", FinalizeTx.calls[2].call_id, 0>>,
     <<"TxId", FinalizeTx.calls[1].call_id, 1>>}

\* the call_context sub-logs handed to finalize, inserted through the
\* counter from 1 on
FinalizeLogs ==
    {[i \in DOMAIN f |-> Operation(i, "READ", f[i][1], f[i][2], f[i][3])] :
         f \in UNION {[1..n -> FinalizeOps] : n \in 0..MaxPlaceholders}}

\* the call_maps handed to finalize: each call of the transaction is
\* registered or not
FinalizeCallMaps ==
    {[id \in ids |-> IF id = FinalizeTx.calls[1].call_id
                         THEN <<0, 0>> ELSE <<0, 1>>] :
         ids \in SUBSET {FinalizeTx.calls[k].call_id : k \in 1..2}}

\* the builder at the end of handle_block_inner's loop, with such a log
InitFinalize ==
    /\ circuits_params \in [max_rws : {0, MaxPlaceholders, DefaultMaxRws},
                            max_txs : {DefaultMaxTxs}]
    /\ is_last = TRUE
    /\ num_block_txs = 1
    /\ pc = "reversion"
    /\ idx = 0
    /\ tx_index = 1
    /\ index = 0
    /\ \E log \in FinalizeLogs :
        /\ container = [EmptyContainer EXCEPT !["call_context"] = log]
        /\ rwc = Len(log) + 1
    /\ call_map \in FinalizeCallMaps
    /\ txs = <<FinalizeTx>>
    /\ block_steps = NoBlockSteps
    /\ withdraw_root = DefaultWord
    /\ prev_withdraw_root = DefaultWord
    /\ last_tx_log = NoLastTxLog
    /\ region = NoRegion
    /\ gate_offset = 0
    /\ gate_log = <<>>
    /\ eth_tx = NoEthTx
    /\ geth_trace = NoGethTrace
    /\ tx = NoTx
    /\ tx_ctx = NoTxCtx
    /\ sdb = [commits |-> 1]
    /\ result = NoResult
    /\ raised = "-"
    /\ n_set_value_ops = 0
    /\ n_set_end_block = 0
    /\ fn_args = NoArgs
    /\ fn_result = NoResult

NextFinalize ==
    \/ HandleBlockSetValueOps
    \/ HandleBlockSetEndBlock
    \/ MultiDone

SpecFinalize == InitFinalize /\ [][NextFinalize]_vars

(***************************************************************************)
(* handle_block on its own: handle_block_inner(eth_block, geth_traces,     *)
(* true, true) on a builder as constructed, with the default max_txs or    *)
(* with none.  The program is sequential: whenever it can take a step it   *)
(* takes one.                                                              *)
(***************************************************************************)
InitHandleBlock ==
    /\ circuits_params \in [max_rws : MaxRwsChoices,
                            max_txs : {DefaultMaxTxs - 1, DefaultMaxTxs}]
    /\ is_last = TRUE
    /\ num_block_txs \in 0..MaxBlockTxs
    /\ pc = "tx_loop"
    /\ idx = 0
    /\ tx_index = 0
    /\ index = 0
    /\ rwc = 1
    /\ call_map = EmptyMap
    /\ container = EmptyContainer
    /\ txs = <<>>
    /\ block_steps = NoBlockSteps
    /\ withdraw_root = DefaultWord
    /\ prev_withdraw_root = DefaultWord
    /\ last_tx_log = NoLastTxLog
    /\ region = NoRegion
    /\ gate_offset = 0
    /\ gate_log = <<>>
    /\ eth_tx = NoEthTx
    /\ geth_trace = NoGethTrace
    /\ tx = NoTx
    /\ tx_ctx = NoTxCtx
    /\ sdb = [commits |-> 0]
    /\ result = NoResult
    /\ raised = "-"
    /\ n_set_value_ops = 0
    /\ n_set_end_block = 0
    /\ fn_args = NoArgs
    /\ fn_result = NoResult

NextHandleBlock ==
    \/ HandleBlockSkipTx
    \/ HandleBlockNoTrace
    \/ HandleTxBegin
    \/ HandleTxBeginErr
    \/ HandleTxStep
    \/ HandleTxStepErr
    \/ HandleTxEnd
    \/ HandleTxEndErr
    \/ HandleTxCommit
    \/ HandleTxPush
    \/ HandleBlockLoopExit
    \/ HandleBlockSetValueOps
    \/ HandleBlockSetEndBlock
    \/ MultiDone

SpecHandleBlock ==
    InitHandleBlock /\ [][NextHandleBlock]_vars /\ WF_vars(NextHandleBlock)

(***************************************************************************)
(* get_state_accesses, a free function of the module: it is called with    *)
(* fn_args = [fn, eth_block, geth_traces] and returns fn_result.            *)
(* gen_state_access_trace is an external collaborator: a trace stands for   *)
(* what gen_state_access_trace returns for it, [err, accesses].             *)
(***************************************************************************)
\* accesses gen_state_access_trace returns for one transaction
MaxTxAccesses == 2

\* Access::new(step_index, rw, value)
Access(step_index, rw, value) ==
    [step_index |-> step_index, rw |-> rw, value |-> value]

\* AccessValue::Account { address }
AccountAccess(address) == [kind |-> "Account", address |-> address]

\* Ok(block_access_trace)
OkAccesses(block_access_trace) ==
    [tag |-> "Ok", err |-> "-", v |-> block_access_trace]

\* the addresses of the blocks tried: the block's author and a caller
AuthorAddress == 1
CallerAddress == 2

\* the accesses a transaction may make: a read of the caller's account, a
\* write of the author's account (the fee)
TxAccesses ==
    {Access(Some(0), "READ", AccountAccess(CallerAddress)),
     Access(Some(1), "WRITE", AccountAccess(AuthorAddress))}

\* what gen_state_access_trace may return for a transaction and its trace
TxAccessTraces ==
    {[err |-> "-", accesses |-> a] :
         a \in UNION {[1..n -> TxAccesses] : n \in 0..MaxTxAccesses}}
        \cup {[err |-> e, accesses |-> <<>>] : e \in GenErrors}

\* the blocks tried: with or without author, of 0..MaxBlockTxs transactions
EthBlocks ==
    [author : {None, Some(AuthorAddress)}, transactions : 0..MaxBlockTxs]

\* the loop of get_state_accesses from tx_index i on; geth_traces[tx_index]
\* panics when there is no such trace, and `?` returns the error of
\* gen_state_access_trace
RECURSIVE ExtendAccessTrace(_, _, _, _)
ExtendAccessTrace(block_access_trace, eth_block, geth_traces, i) ==
    IF i = eth_block.transactions THEN OkAccesses(block_access_trace)
    ELSE IF i + 1 > Len(geth_traces) THEN Panic("index out of bounds")
    ELSE LET tx_access_trace == geth_traces[i + 1]
         IN  IF tx_access_trace.err # "-" THEN Err(tx_access_trace.err)
             ELSE ExtendAccessTrace(
                      block_access_trace \o tx_access_trace.accesses,
                      eth_block, geth_traces, i + 1)

\* a faulty get_state_accesses: a block without author gets the default
\* address
GetStateAccessesDefaultAuthor(eth_block, geth_traces) ==
    ExtendAccessTrace(
        <<Access(None, "WRITE",
                 AccountAccess(IF eth_block.author.some
                                   THEN eth_block.author.v ELSE 0))>>,
        eth_block, geth_traces, 0)

\* get_state_accesses
GetStateAccesses(eth_block, geth_traces) ==
    IF ~eth_block.author.some THEN Err(IncompleteBlock)
    ELSE ExtendAccessTrace(
             <<Access(None, "WRITE", AccountAccess(eth_block.author.v))>>,
             eth_block, geth_traces, 0)

\* get_state_accesses is called on a block and 0..MaxBlockTxs traces; no
\* builder is involved
InitAccesses ==
    /\ circuits_params = [max_rws |-> DefaultMaxRws, max_txs |-> DefaultMaxTxs]
    /\ is_last = FALSE
    /\ num_block_txs = 0
    /\ pc = "call"
    /\ idx = 0
    /\ tx_index = 0
    /\ index = 0
    /\ rwc = 1
    /\ call_map = EmptyMap
    /\ container = EmptyContainer
    /\ txs = <<>>
    /\ block_steps = NoBlockSteps
    /\ withdraw_root = DefaultWord
    /\ prev_withdraw_root = DefaultWord
    /\ last_tx_log = NoLastTxLog
    /\ region = NoRegion
    /\ gate_offset = 0
    /\ gate_log = <<>>
    /\ eth_tx = NoEthTx
    /\ geth_trace = NoGethTrace
    /\ tx = NoTx
    /\ tx_ctx = NoTxCtx
    /\ sdb = [commits |-> 0]
    /\ result = NoResult
    /\ raised = "-"
    /\ n_set_value_ops = 0
    /\ n_set_end_block = 0
    /\ fn_args \in [fn : {"get_state_accesses"},
                    eth_block : EthBlocks,
                    geth_traces : UNION {[1..n -> TxAccessTraces] :
                                             n \in 0..MaxBlockTxs}]
    /\ fn_result = NoResult

\* the call of get_state_accesses returns
CallGetStateAccesses ==
    /\ pc = "call"
    /\ fn_args.fn = "get_state_accesses"
    /\ fn_result' = GetStateAccesses(fn_args.eth_block, fn_args.geth_traces)
    /\ pc' = "returned"
    /\ UNCHANGED <<region, gate_offset, gate_log,
                   withdraw_root, prev_withdraw_root, last_tx_log,
                   circuits_params, is_last, num_block_txs, idx, tx_index, index,
                   rwc, call_map, container, txs, block_steps, eth_tx,
                   geth_trace, tx, tx_ctx, sdb, result, raised,
                   n_set_value_ops, n_set_end_block, fn_args>>

NextAccesses == CallGetStateAccesses

SpecAccesses == InitAccesses /\ [][NextAccesses]_vars

(***************************************************************************)
(* The free functions that take no builder.  A call has its arguments in   *)
(* fn_args and returns fn_result; the builder's variables stay as          *)
(* constructed.                                                            *)
(***************************************************************************)
IdleBuilder ==
    /\ circuits_params = [max_rws |-> DefaultMaxRws, max_txs |-> DefaultMaxTxs]
    /\ is_last = FALSE
    /\ num_block_txs = 0
    /\ idx = 0
    /\ tx_index = 0
    /\ index = 0
    /\ rwc = 1
    /\ call_map = EmptyMap
    /\ container = EmptyContainer
    /\ txs = <<>>
    /\ block_steps = NoBlockSteps
    /\ withdraw_root = DefaultWord
    /\ prev_withdraw_root = DefaultWord
    /\ last_tx_log = NoLastTxLog
    /\ region = NoRegion
    /\ gate_log = <<>>
    /\ eth_tx = NoEthTx
    /\ geth_trace = NoGethTrace
    /\ tx = NoTx
    /\ tx_ctx = NoTxCtx
    /\ sdb = [commits |-> 0]
    /\ result = NoResult
    /\ raised = "-"
    /\ n_set_value_ops = 0
    /\ n_set_end_block = 0

(***************************************************************************)
(* keccak_inputs.  A byte string is a sequence of bytes (0..255).          *)
(***************************************************************************)
\* transactions of the block keccak_inputs is given
MaxKeccakTxs == 2

\* byte strings in block.sha3_inputs
MaxSha3Inputs == 2

\* Ok(v)
OkValue(v) == [tag |-> "Ok", err |-> "-", v |-> v]

\* to_be_bytes of an unsigned integer of w bytes
RECURSIVE ToBeBytes(_, _)
ToBeBytes(n, w) ==
    IF w = 0 THEN <<>> ELSE Append(ToBeBytes(n \div 256, w - 1), n % 256)

\* flat_map / collect::<Vec<u8>>: the byte strings of a sequence, joined
RECURSIVE Flatten(_)
Flatten(ss) == IF ss = <<>> THEN <<>> ELSE Head(ss) \o Flatten(Tail(ss))

\* keccak256: a digest of 32 bytes; the length of the input and its last
\* byte stand for the hash function
Keccak256(b) ==
    ToBeBytes(256 * Len(b) + (IF b = <<>> THEN 0 ELSE Last(b)), 32)

\* the sequence in reverse order
RECURSIVE Reversed(_)
Reversed(s) == IF s = <<>> THEN <<>> ELSE Append(Reversed(Tail(s)), Head(s))

\* pk_bytes_swap_endianness over pk_bytes_le(pk): the public key is held as
\* its little-endian bytes, x then y, and each half is reversed
PkBytesSwapEndianness(pk_le) ==
    LET half == Len(pk_le) \div 2
    IN  Reversed(SubSeq(pk_le, 1, half))
            \o Reversed(SubSeq(pk_le, half + 1, Len(pk_le)))

\* SignData: the public key and the signed message
SignData(pk, msg) == [pk |-> pk, msg |-> msg]

\* SignData::default(): a signature under the key 1 (pk = [1]G), of an empty
\* message
DefaultSignData == SignData(<<152, 23, 184, 72>>, <<>>)

\* get_dummy_tx: rlp_signed and rlp_unsigned of the dummy transaction
DummyTxRlpSigned == <<248, 128, 128, 28>>
DummyTxRlpUnsigned == <<201, 128, 128>>

\* geth_types::Transaction, of which keccak_inputs reads rlp_bytes, block_num,
\* hash, tx_type, whether v, r and s are all zero, and sign_data()
GethTx(rlp_bytes, tx_type, signed, sign_data) ==
    [rlp_bytes |-> rlp_bytes, block_num |-> 1, hash |-> Keccak256(rlp_bytes),
     tx_type |-> tx_type, signed |-> signed, sign_data |-> sign_data]

\* the encodings the transactions tried have
RlpEncodings == {<<1, 2>>, <<3>>}

\* the sign data the signed transactions tried have: recovered or not
SignDatas ==
    {OkValue(SignData(pk, msg)) :
         pk \in {<<152, 23, 184, 72>>, <<5, 6, 7, 8>>}, msg \in {<<3>>}}
        \cup {Err("Signature")}

\* the transactions tried: L1 messages, unsigned transactions that are no L1
\* message, and signed transactions
KeccakTxs ==
    {GethTx(b, "L1Msg", FALSE, Err("Signature")) : b \in RlpEncodings}
        \cup {GethTx(b, "Eip155", FALSE, Err("Signature")) : b \in RlpEncodings}
        \cup {GethTx(b, "Eip155", TRUE, sd) :
                  b \in RlpEncodings, sd \in SignDatas}

\* BlockHead: number, timestamp, base_fee, gas_limit, eth_block.state_root
KeccakHeaders ==
    {<<>>,
     <<[number |-> 1, timestamp |-> 300, base_fee |-> 7, gas_limit |-> 1000,
        state_root |-> 5]>>}

\* the hash inputs of the opcodes replayed
Sha3Inputs == {<<1, 2>>, <<4>>}

\* the blocks keccak_inputs is given
KeccakBlocks ==
    [chain_id : {1}, prev_state_root : {4}, withdraw_root : {0},
     headers : KeccakHeaders,
     txs : UNION {[1..n -> KeccakTxs] : n \in 0..MaxKeccakTxs},
     sha3_inputs : UNION {[1..n -> Sha3Inputs] : n \in 0..MaxSha3Inputs}]

\* keccak_inputs_sign_verify: pk and message of every signature, then the
\* pk of the padding signature
KeccakInputsSignVerify(sigs) ==
    Flatten([i \in DOMAIN sigs |->
                 <<PkBytesSwapEndianness(sigs[i].pk), sigs[i].msg>>])
        \o <<PkBytesSwapEndianness(DefaultSignData.pk)>>

\* try_collect: the first error, or the values
TryCollect(rs) ==
    IF \E i \in DOMAIN rs : rs[i].tag = "Err"
        THEN rs[CHOOSE i \in DOMAIN rs :
                    /\ rs[i].tag = "Err"
                    /\ \A j \in 1..(i - 1) : rs[j].tag # "Err"]
    ELSE OkValue([i \in DOMAIN rs |-> rs[i].v])

\* a faulty keccak_inputs_tx_circuit: no transaction is filtered out
KeccakInputsTxCircuitSignsAll(txs_) ==
    LET hash_datas == [i \in DOMAIN txs_ |-> txs_[i].rlp_bytes]
        sign_datas ==
            TryCollect([i \in DOMAIN txs_ |->
                            IF txs_[i].tx_type = "L1Msg"
                                THEN OkValue(DefaultSignData)
                            ELSE txs_[i].sign_data])
    IN  IF sign_datas.tag = "Err" THEN sign_datas
        ELSE OkValue(hash_datas \o <<DummyTxRlpSigned>>
                         \o KeccakInputsSignVerify(sign_datas.v)
                         \o <<DummyTxRlpUnsigned>>)

\* keccak_inputs_tx_circuit
KeccakInputsTxCircuit(txs_) ==
    LET hash_datas == [i \in DOMAIN txs_ |-> txs_[i].rlp_bytes]
        kept == SelectSeq(txs_, LAMBDA t : t.tx_type = "L1Msg" \/ t.signed)
        sign_datas ==
            TryCollect([i \in DOMAIN kept |->
                            IF kept[i].tx_type = "L1Msg"
                                THEN OkValue(DefaultSignData)
                            ELSE kept[i].sign_data])
    IN  IF sign_datas.tag = "Err" THEN sign_datas
        ELSE OkValue(hash_datas \o <<DummyTxRlpSigned>>
                         \o KeccakInputsSignVerify(sign_datas.v)
                         \o <<DummyTxRlpUnsigned>>)

\* keccak_inputs_pi_circuit: data_bytes and pi_bytes
KeccakInputsPiCircuit(chain_id, prev_state_root, withdraw_trie_root, block_headers, transactions) ==
    LET num_txs(block_num) ==
            Cardinality({i \in DOMAIN transactions :
                             transactions[i].block_num = block_num})
        data_bytes ==
            Flatten([h \in DOMAIN block_headers |->
                         ToBeBytes(block_headers[h].number, 8)
                             \o ToBeBytes(block_headers[h].timestamp, 8)
                             \o ToBeBytes(block_headers[h].base_fee, 32)
                             \o ToBeBytes(block_headers[h].gas_limit, 8)
                             \o ToBeBytes(num_txs(block_headers[h].number), 2)])
                \o Flatten([i \in DOMAIN transactions |->
                                transactions[i].hash])
        data_hash == Keccak256(data_bytes)
        after_state_root ==
            IF block_headers # <<>>
                THEN ToBeBytes(Last(block_headers).state_root, 32)
            ELSE ToBeBytes(prev_state_root, 32)
        pi_bytes ==
            ToBeBytes(chain_id, 8) \o ToBeBytes(prev_state_root, 32)
                \o after_state_root \o ToBeBytes(withdraw_trie_root, 32)
                \o data_hash
    IN  <<data_bytes, pi_bytes>>

\* Itertools::unique: the elements not seen before, in order
RECURSIVE Unique(_)
Unique(s) ==
    IF s = <<>> THEN <<>>
    ELSE LET front == Unique(Front(s))
         IN  IF \E i \in DOMAIN front : front[i] = Last(s) THEN front
             ELSE Append(front, Last(s))

\* the three sources of keccak_inputs, in the order they are gathered
KeccakInputsGathered(block, tx_circuit) ==
    tx_circuit
        \o KeccakInputsPiCircuit(block.chain_id, block.prev_state_root,
                                 block.withdraw_root, block.headers, block.txs)
        \o block.sha3_inputs

\* a faulty keccak_inputs: the list is returned as gathered
KeccakInputsNoDedup(block) ==
    LET tx_circuit == KeccakInputsTxCircuit(block.txs)
    IN  IF tx_circuit.tag = "Err" THEN tx_circuit
        ELSE OkValue(KeccakInputsGathered(block, tx_circuit.v))

\* keccak_inputs
KeccakInputs(block) ==
    LET tx_circuit == KeccakInputsTxCircuit(block.txs)
    IN  IF tx_circuit.tag = "Err" THEN tx_circuit
        ELSE OkValue(Unique(KeccakInputsGathered(block, tx_circuit.v)))

\* keccak_inputs is called on a block
InitKeccak ==
    /\ IdleBuilder
    /\ gate_offset = 0
    /\ pc = "call"
    /\ fn_args \in [fn : {"keccak_inputs"}, block : KeccakBlocks]
    /\ fn_result = NoResult

\* the call of keccak_inputs returns
CallKeccakInputs ==
    /\ pc = "call"
    /\ fn_args.fn = "keccak_inputs"
    /\ fn_result' = KeccakInputs(fn_args.block)
    /\ pc' = "returned"
    /\ UNCHANGED <<region, gate_offset, gate_log,
                   withdraw_root, prev_withdraw_root, last_tx_log,
                   circuits_params, is_last, num_block_txs, idx, tx_index, index,
                   rwc, call_map, container, txs, block_steps, eth_tx,
                   geth_trace, tx, tx_ctx, sdb, result, raised,
                   n_set_value_ops, n_set_end_block, fn_args>>

NextKeccak == CallKeccakInputs

SpecKeccak == InitKeccak /\ [][NextKeccak]_vars

\* keccak_inputs_tx_circuit is called on a list of transactions
InitTxCircuit ==
    /\ IdleBuilder
    /\ gate_offset = 0
    /\ pc = "call"
    /\ fn_args \in [fn : {"keccak_inputs_tx_circuit"},
                    txs : UNION {[1..n -> KeccakTxs] : n \in 0..MaxKeccakTxs}]
    /\ fn_result = NoResult

\* the call of keccak_inputs_tx_circuit returns
CallKeccakInputsTxCircuit ==
    /\ pc = "call"
    /\ fn_args.fn = "keccak_inputs_tx_circuit"
    /\ fn_result' = KeccakInputsTxCircuit(fn_args.txs)
    /\ pc' = "returned"
    /\ UNCHANGED <<region, gate_offset, gate_log,
                   withdraw_root, prev_withdraw_root, last_tx_log,
                   circuits_params, is_last, num_block_txs, idx, tx_index, index,
                   rwc, call_map, container, txs, block_steps, eth_tx,
                   geth_trace, tx, tx_ctx, sdb, result, raised,
                   n_set_value_ops, n_set_end_block, fn_args>>

NextTxCircuit == CallKeccakInputsTxCircuit

SpecTxCircuit == InitTxCircuit /\ [][NextTxCircuit]_vars

(***************************************************************************)
(* get_create_init_code.  usize and u64 are UsizeBits wide, a stack word   *)
(* one bit wider; the memory is a sequence of bytes.                       *)
(***************************************************************************)
\* the width of usize
UsizeBits == 3

\* the longest memory tried
MaxMemLen == 3

RECURSIVE Pow2(_)
Pow2(n) == IF n = 0 THEN 1 ELSE 2 * Pow2(n - 1)

\* usize::MAX
UsizeMax == Pow2(UsizeBits) - 1

\* the stack words tried: those that fit in usize and as many that do not
Words == 0..(Pow2(UsizeBits + 1) - 1)

\* Word::low_u64() as usize
LowU64(word) == word % Pow2(UsizeBits)

\* the memories tried: byte i of the memory is i
Memories == {[i \in 1..n |-> i] : n \in 0..MaxMemLen}

\* the stacks tried at a CREATE: value, offset and length on top (the last
\* element is the top), and stacks that are too short
Stacks ==
    {<<length, offset, 0>> : length \in Words, offset \in Words}
        \cup {<<>>, <<0>>, <<0, 0>>}

\* Stack::nth_last(n)
NthLast(stack, n) ==
    IF n < Len(stack) THEN OkValue(stack[Len(stack) - n])
    ELSE Err("InvalidStackPointer")

\* usize::checked_add
CheckedAdd(a, b) == IF a + b > UsizeMax THEN None ELSE Some(a + b)

\* &memory[start..end]: panics when the range does not lie in the memory
Slice(memory, start, end) ==
    IF end > Len(memory) THEN Panic("range end index out of range")
    ELSE IF start > end THEN Panic("slice index starts after its end")
    ELSE OkValue(SubSeq(memory, start + 1, end))

\* get_create_init_code
GetCreateInitCode(memory, stack) ==
    LET offset_word == NthLast(stack, 1)
        length_word == NthLast(stack, 2)
    IN  IF offset_word.tag = "Err" THEN offset_word
        ELSE IF length_word.tag = "Err" THEN length_word
        ELSE IF length_word.v > UsizeMax
            THEN Panic("Integer overflow when casting to usize")
        ELSE LET offset  == LowU64(offset_word.v)
                 length  == length_word.v
                 mem_len == Len(memory)
                 sum     == CheckedAdd(offset, length)
                 offset_end == IF sum.some THEN sum.v ELSE mem_len
             IN  IF offset >= mem_len THEN OkValue(<<>>)
                 ELSE Slice(memory, offset, offset_end)

\* get_create_init_code is called on the memory of a call and the stack of a
\* step
InitInitCode ==
    /\ IdleBuilder
    /\ gate_offset = 0
    /\ pc = "call"
    /\ fn_args \in [fn : {"get_create_init_code"}, memory : Memories,
                    stack : Stacks]
    /\ fn_result = NoResult

\* the call of get_create_init_code returns
CallGetCreateInitCode ==
    /\ pc = "call"
    /\ fn_args.fn = "get_create_init_code"
    /\ fn_result' = GetCreateInitCode(fn_args.memory, fn_args.stack)
    /\ pc' = "returned"
    /\ UNCHANGED <<region, gate_offset, gate_log,
                   withdraw_root, prev_withdraw_root, last_tx_log,
                   circuits_params, is_last, num_block_txs, idx, tx_index, index,
                   rwc, call_map, container, txs, block_steps, eth_tx,
                   geth_trace, tx, tx_ctx, sdb, result, raised,
                   n_set_value_ops, n_set_end_block, fn_args>>

NextInitCode == CallGetCreateInitCode

SpecInitCode == InitInitCode /\ [][NextInitCode]_vars

(***************************************************************************)
(* The gates of RlcConfig (aggregator/src/aggregation/rlc/gates.rs).  A    *)
(* gate assigns rows of phase_2_column in a Region, from the caller's      *)
(* offset on, and returns the AssignedCell that holds its result.  A gate  *)
(* of the model is given the region and the offset and returns both as it  *)
(* leaves them, with what the Rust function returned.  The equality        *)
(* constraints and the selectors of the gates are left out: they decide    *)
(* whether a proof verifies, not what is assigned.                         *)
(***************************************************************************)
\* the modulus of Fr: a small prime stands for the order of bn256
FieldModulus == 3

\* the elements of Fr
Fr == 0..(FieldModulus - 1)

\* a.value() + b.value()
FrAdd(a, b) == (a + b) % FieldModulus

\* a.value() - b.value()
FrSub(a, b) == (a - b + FieldModulus) % FieldModulus

\* a.value() * b.value()
FrMul(a, b) == (a * b) % FieldModulus

\* AssignedCell: the row of the cell and its value
AssignedCell(row, value) == [row |-> row, value |-> value]

\* the unit value () and the cell of a call that returned no cell
NoCell == [row |-> "-", value |-> "-"]

\* Error::NotEnoughRowsAvailable of the Region
NotEnoughRows == "NotEnoughRowsAvailable"

\* what a gate leaves: the region, the offset and its return value
GateOk(reg, off, cell) == [tag |-> "Ok", err |-> "-", region |-> reg, offset |-> off, cell |-> cell]

GateErr(reg, off, e) == [tag |-> "Err", err |-> e, region |-> reg, offset |-> off, cell |-> NoCell]

GatePanic(reg, off, msg) == [tag |-> "Panic", err |-> msg, region |-> reg, offset |-> off, cell |-> NoCell]

\* region.assign_advice and copy_advice, for a sequence of values at the
\* rows from row on: each assignment is followed by ?, so the first row the
\* region has no room for ends the gate with the rows before it assigned
RECURSIVE AssignAdvice(_, _, _)
AssignAdvice(reg, row, values) ==
    IF values = <<>> THEN [tag |-> "Ok", err |-> "-", region |-> reg]
    ELSE IF row >= MaxRegionRows
        THEN [tag |-> "Err", err |-> NotEnoughRows, region |-> reg]
    ELSE AssignAdvice([reg EXCEPT ![row] = [value |-> Head(values), assigned |-> @.assigned + 1]], row + 1, Tail(values))

\* load_private
LoadPrivate(reg, f, off) ==
    LET res == AssignAdvice(reg, off, <<f>>)
    IN  IF res.tag = "Err" THEN GateErr(res.region, off + 1, res.err)
        ELSE GateOk(res.region, off + 1, AssignedCell(off, f))

\* read_challenge, given challenge_value.keccak_input()
ReadChallenge(reg, challenge_value, off) ==
    LET challenge_cell == AssignAdvice(reg, off, <<challenge_value>>)
    IN  IF challenge_cell.tag = "Err"
            THEN GateErr(challenge_cell.region, off, challenge_cell.err)
        ELSE GateOk(challenge_cell.region, off + 1,
                    AssignedCell(off, challenge_value))

\* add: the rows a, 1, b, a + b; d is the last one
Add(reg, a, b, off) ==
    LET d == FrAdd(a.value, b.value)
        res == AssignAdvice(reg, off, <<a.value, 1, b.value, d>>)
    IN  IF res.tag = "Err" THEN GateErr(res.region, off, res.err)
        ELSE GateOk(res.region, off + 4, AssignedCell(off + 3, d))

\* sub: the rows a - b, 1, b, a; res is the first one
Sub(reg, a, b, off) ==
    LET d == FrSub(a.value, b.value)
        res == AssignAdvice(reg, off, <<d, 1, b.value, a.value>>)
    IN  IF res.tag = "Err" THEN GateErr(res.region, off, res.err)
        ELSE GateOk(res.region, off + 4, AssignedCell(off, d))

\* a faulty mul: the offset is advanced by three rows
MulAdvancesThree(reg, a, b, off) ==
    LET d == FrMul(a.value, b.value)
        res == AssignAdvice(reg, off, <<a.value, b.value, 0, d>>)
    IN  IF res.tag = "Err" THEN GateErr(res.region, off, res.err)
        ELSE GateOk(res.region, off + 3, AssignedCell(off + 3, d))

\* mul: the rows a, b, 0, a * b; d is the last one
Mul(reg, a, b, off) ==
    LET d == FrMul(a.value, b.value)
        res == AssignAdvice(reg, off, <<a.value, b.value, 0, d>>)
    IN  IF res.tag = "Err" THEN GateErr(res.region, off, res.err)
        ELSE GateOk(res.region, off + 4, AssignedCell(off + 3, d))

\* a faulty mul_add: d is a + b * c
MulAddWrongOperands(reg, a, b, c, off) ==
    LET d == FrAdd(a.value, FrMul(b.value, c.value))
        res == AssignAdvice(reg, off, <<a.value, b.value, c.value, d>>)
    IN  IF res.tag = "Err" THEN GateErr(res.region, off, res.err)
        ELSE GateOk(res.region, off + 4, AssignedCell(off + 3, d))

\* mul_add: the rows a, b, c, a * b + c; d is the last one
MulAdd(reg, a, b, c, off) ==
    LET d == FrAdd(FrMul(a.value, b.value), c.value)
        res == AssignAdvice(reg, off, <<a.value, b.value, c.value, d>>)
    IN  IF res.tag = "Err" THEN GateErr(res.region, off, res.err)
        ELSE GateOk(res.region, off + 4, AssignedCell(off + 3, d))

\* enforce_binary: f * f, constrained equal to f
EnforceBinary(reg, f, off) ==
    LET f2 == Mul(reg, f, f, off)
    IN  IF f2.tag = "Err" THEN f2
        ELSE GateOk(f2.region, f2.offset, NoCell)

\* not: 1 - a
Not(reg, a, off) ==
    LET one == LoadPrivate(reg, 1, off)
    IN  IF one.tag = "Err" THEN one
        ELSE Sub(one.region, one.cell, a, one.offset)

\* a faulty select: a * not(cond) + b * cond
SelectArmsSwapped(reg, a, b, cond, off) ==
    LET cond_not == Not(reg, cond, off)
        tmp == Mul(cond_not.region, b, cond, cond_not.offset)
    IN  IF cond_not.tag = "Err" THEN cond_not
        ELSE IF tmp.tag = "Err" THEN tmp
        ELSE MulAdd(tmp.region, a, cond_not.cell, tmp.cell, tmp.offset)

\* select: b * not(cond) + a * cond
Select(reg, a, b, cond, off) ==
    LET cond_not == Not(reg, cond, off)
        tmp == Mul(cond_not.region, a, cond, cond_not.offset)
    IN  IF cond_not.tag = "Err" THEN cond_not
        ELSE IF tmp.tag = "Err" THEN tmp
        ELSE MulAdd(tmp.region, b, cond_not.cell, tmp.cell, tmp.offset)

\* the loop of rlc from inputs[i] on (0-based), acc being g.cell
RECURSIVE RlcLoop(_, _, _, _)
RlcLoop(g, inputs, challenge, i) ==
    IF i >= Len(inputs) THEN g
    ELSE LET acc == MulAdd(g.region, g.cell, challenge, inputs[i + 1], g.offset)
         IN  IF acc.tag = "Err" THEN acc
             ELSE RlcLoop(acc, inputs, challenge, i + 1)

\* rlc
Rlc(reg, inputs, challenge, off) ==
    IF inputs = <<>> THEN GatePanic(reg, off, "index out of bounds")
    ELSE RlcLoop(GateOk(reg, off, inputs[1]), inputs, challenge, 1)

\* a faulty loop of rlc_with_flag: the flag is not read
RECURSIVE RlcWithFlagLoopKeepsAll(_, _, _, _, _)
RlcWithFlagLoopKeepsAll(g, inputs, challenge, flags, i) ==
    IF i >= Len(inputs) THEN g
    ELSE LET tmp == MulAdd(g.region, g.cell, challenge, inputs[i + 1], g.offset)
             acc == Select(tmp.region, tmp.cell, tmp.cell, flags[i + 1], tmp.offset)
         IN  IF tmp.tag = "Err" THEN tmp
             ELSE IF acc.tag = "Err" THEN acc
             ELSE RlcWithFlagLoopKeepsAll(acc, inputs, challenge, flags, i + 1)

\* the loop of rlc_with_flag from inputs[i], flags[i] on (0-based)
RECURSIVE RlcWithFlagLoop(_, _, _, _, _)
RlcWithFlagLoop(g, inputs, challenge, flags, i) ==
    IF i >= Len(inputs) THEN g
    ELSE LET tmp == MulAdd(g.region, g.cell, challenge, inputs[i + 1], g.offset)
             acc == Select(tmp.region, tmp.cell, g.cell, flags[i + 1], tmp.offset)
         IN  IF tmp.tag = "Err" THEN tmp
             ELSE IF acc.tag = "Err" THEN acc
             ELSE RlcWithFlagLoop(acc, inputs, challenge, flags, i + 1)

\* rlc_with_flag
RlcWithFlag(reg, inputs, challenge, flags, off) ==
    IF Len(flags) # Len(inputs)
        THEN GatePanic(reg, off, "assertion failed: flags.len() == inputs.len()")
    ELSE IF inputs = <<>> THEN GatePanic(reg, off, "index out of bounds")
    ELSE RlcWithFlagLoop(GateOk(reg, off, inputs[1]), inputs, challenge, flags, 1)

\* a cell the caller holds, assigned before the gates are called
CellOf(v) == AssignedCell(0, v)

\* the offsets the caller starts from: the top of the region, and five rows
\* before its end
StartOffsets == {0, MaxRegionRows - 5}

\* what a gate call returned: Ok(cell), Err(e) or a panic
Returned(g) == [tag |-> g.tag, err |-> g.err, cell |-> g.cell]

\* the rows of the region the gate call that left g assigned
RowsAssigned(g) == {row \in DOMAIN region : g.region[row].assigned > region[row].assigned}

(***************************************************************************)
(* Successive gate calls on one region and one offset, as the circuits     *)
(* that use RlcConfig make them.                                           *)
(***************************************************************************)
\* the values of the cells the calls are given
ArgValues == {0, 1}

\* the caller holds a region and an offset
InitGates ==
    /\ IdleBuilder
    /\ pc = "gates"
    /\ gate_offset \in StartOffsets
    /\ fn_args = NoResult
    /\ fn_result = NoResult

\* a gate is called with the region and &mut offset, and returns g; an
\* error is passed on with ?, as in the gates that call other gates, so
\* that no gate is called after it
GateCall(gate, args, g) ==
    /\ pc = "gates"
    /\ pc' = IF g.tag = "Ok" THEN "gates" ELSE "failed"
    /\ region' = g.region
    /\ gate_offset' = g.offset
    /\ gate_log' = Append(gate_log, [gate |-> gate, args |-> args, from |-> gate_offset, to |-> g.offset, rows |-> RowsAssigned(g), res |-> Returned(g)])
    /\ UNCHANGED <<withdraw_root, prev_withdraw_root, last_tx_log,
                   circuits_params, is_last, num_block_txs, idx, tx_index,
                   index, rwc, call_map, container, txs, block_steps, eth_tx,
                   geth_trace, tx, tx_ctx, sdb, result, raised,
                   n_set_value_ops, n_set_end_block, fn_args, fn_result>>

CallLoadPrivate ==
    /\ Len(gate_log) < MaxGateCalls
    /\ \E f \in ArgValues :
           GateCall("load_private", <<f>>, LoadPrivate(region, f, gate_offset))

CallReadChallenge ==
    /\ Len(gate_log) < MaxGateCalls
    /\ \E v \in ArgValues :
           GateCall("read_challenge", <<v>>, ReadChallenge(region, v, gate_offset))

CallEnforceBinary ==
    /\ Len(gate_log) < MaxGateCalls
    /\ \E f \in ArgValues :
           GateCall("enforce_binary", <<f>>, EnforceBinary(region, CellOf(f), gate_offset))

CallAdd ==
    /\ Len(gate_log) < MaxGateCalls
    /\ \E a, b \in ArgValues :
           GateCall("add", <<a, b>>, Add(region, CellOf(a), CellOf(b), gate_offset))

CallSub ==
    /\ Len(gate_log) < MaxGateCalls
    /\ \E a, b \in ArgValues :
           GateCall("sub", <<a, b>>, Sub(region, CellOf(a), CellOf(b), gate_offset))

CallMul ==
    /\ Len(gate_log) < MaxGateCalls
    /\ \E a, b \in ArgValues :
           GateCall("mul", <<a, b>>, Mul(region, CellOf(a), CellOf(b), gate_offset))

CallMulAdd ==
    /\ Len(gate_log) < MaxGateCalls
    /\ \E a, b, c \in ArgValues :
           GateCall("mul_add", <<a, b, c>>, MulAdd(region, CellOf(a), CellOf(b), CellOf(c), gate_offset))

CallNot ==
    /\ Len(gate_log) < MaxGateCalls
    /\ \E a \in ArgValues :
           GateCall("not", <<a>>, Not(region, CellOf(a), gate_offset))

CallSelect ==
    /\ Len(gate_log) < MaxGateCalls
    /\ \E a, b, cond \in ArgValues :
           GateCall("select", <<a, b, cond>>, Select(region, CellOf(a), CellOf(b), CellOf(cond), gate_offset))

NextGates ==
    \/ CallLoadPrivate
    \/ CallReadChallenge
    \/ CallEnforceBinary
    \/ CallAdd
    \/ CallSub
    \/ CallMul
    \/ CallMulAdd
    \/ CallNot
    \/ CallSelect

SpecGates == InitGates /\ [][NextGates]_vars

(***************************************************************************)
(* One call of not, select, rlc or rlc_with_flag, on cells of any value.   *)
(***************************************************************************)
\* the slices of cells given as inputs or flags
CellSeqs == UNION {[1..n -> {CellOf(v) : v \in Fr}] : n \in 0..MaxRlcInputs}

\* the calls tried
GateArgs ==
    [fn : {"not"}, a : Fr]
        \cup [fn : {"select"}, a : Fr, b : Fr, cond : Fr]
        \cup [fn : {"rlc"}, inputs : CellSeqs, challenge : Fr]
        \cup [fn : {"rlc_with_flag"}, inputs : CellSeqs, challenge : Fr, flags : CellSeqs]

InitGateValues ==
    /\ IdleBuilder
    /\ pc = "call"
    /\ gate_offset \in StartOffsets
    /\ fn_args \in GateArgs
    /\ fn_result = NoResult

\* the gate called returns g
GateReturn(g) ==
    /\ pc = "call"
    /\ pc' = "returned"
    /\ region' = g.region
    /\ gate_offset' = g.offset
    /\ fn_result' = Returned(g)
    /\ UNCHANGED <<gate_log, withdraw_root, prev_withdraw_root, last_tx_log,
                   circuits_params, is_last, num_block_txs, idx, tx_index,
                   index, rwc, call_map, container, txs, block_steps, eth_tx,
                   geth_trace, tx, tx_ctx, sdb, result, raised,
                   n_set_value_ops, n_set_end_block, fn_args>>

ReturnNot ==
    /\ fn_args.fn = "not"
    /\ GateReturn(Not(region, CellOf(fn_args.a), gate_offset))

ReturnSelect ==
    /\ fn_args.fn = "select"
    /\ GateReturn(Select(region, CellOf(fn_args.a), CellOf(fn_args.b), CellOf(fn_args.cond), gate_offset))

ReturnRlc ==
    /\ fn_args.fn = "rlc"
    /\ GateReturn(Rlc(region, fn_args.inputs, CellOf(fn_args.challenge), gate_offset))

ReturnRlcWithFlag ==
    /\ fn_args.fn = "rlc_with_flag"
    /\ GateReturn(RlcWithFlag(region, fn_args.inputs, CellOf(fn_args.challenge), fn_args.flags, gate_offset))

NextGateValues ==
    \/ ReturnNot
    \/ ReturnSelect
    \/ ReturnRlc
    \/ ReturnRlcWithFlag

SpecGateValues == InitGateValues /\ [][NextGateValues]_vars

(***************************************************************************)
(* Properties of the build.                                                *)
(***************************************************************************)
\* the operations of a sequence that carry counter k
CounterCount(ops, k) == Cardinality({i \in 1..Len(ops) : ops[i].rwc = k})

\* the counters of ops, sorted, are 1, 2, .., Len(ops): no duplicate, no gap
CountersContiguous(ops) == \A k \in 1..Len(ops) : CounterCount(ops, k) = 1

\* the call_context sub-log
CallContextOps == container["call_context"]

\* the Start sub-log
StartOps == container["start"]

\* the placeholders of the call_context sub-log
IsPlaceholder(op) == op.field = "RwCounterEndOfReversion"

\* set_end_block has run and returned Ok(())
EndBlockSucceeded == n_set_end_block = 1 /\ result.tag # "Err"

\* C1, as stated: after a successful build the counters of all operations of
\* the container, the Start sub-log included, sorted, are exactly 1..N with
\* N the number of operations in the container.
C1_AllCountersContiguous ==
    pc = "done" => CountersContiguous(AllOps(container))

\* C1, amended: after a successful build the counters of the operations of
\* all sub-logs other than Start, sorted, are exactly 1..total_rws, with
\* total_rws = rwc - 1 the number of those operations; the first Start
\* operation repeats counter 1.
C1_CountedCountersContiguous ==
    pc = "done" =>
        /\ CountersContiguous(CountedOps(container))
        /\ Len(CountedOps(container)) = rwc - 1
        /\ CounterCount(AllOps(container), 1) >= 2

\* C1: a successful build of two transactions with storage operations
C1_Witness ==
    /\ pc = "done"
    /\ Len(txs) = 2
    /\ Len(container["storage"]) >= 3

\* C2: for a nonzero max_rws, set_end_block returns the "rws not enough"
\* error if and only if total_rws + 1 > max_rws, with total_rws = rwc - 1 at
\* the capacity test; otherwise it succeeds and appends the Start operations, so
\* after a successful set_end_block total_rws + 1 <= max_rws.
C2_RwsNotEnoughIff ==
    (n_set_end_block = 1 /\ circuits_params.max_rws # 0) =>
        /\ (result = Err(RwsNotEnough))
               <=> ((rwc - 1) + 1 > circuits_params.max_rws)
        /\ result = Err(RwsNotEnough) => pc = "failed" /\ StartOps = <<>>
        /\ result # Err(RwsNotEnough) =>
               /\ pc \in {"multi", "done"}
               /\ Len(StartOps) = 2
               /\ (rwc - 1) + 1 <= circuits_params.max_rws

\* C2: set_end_block fails at the boundary, total_rws = max_rws
C2_Witness ==
    /\ n_set_end_block = 1
    /\ result = Err(RwsNotEnough)
    /\ rwc - 1 = circuits_params.max_rws

\* C3: after a successful build every placeholder of the call_context
\* sub-log has the rw_counter_end_of_reversion of the call
\* txs[tx_idx].calls[call_idx], (tx_idx, call_idx) = call_map[op.call_id],
\* as its value; placeholders of one call_id carry one value.
C3_PlaceholdersResolved ==
    pc = "done" =>
        \A i \in 1..Len(CallContextOps) :
            LET op == CallContextOps[i]
            IN  IsPlaceholder(op) =>
                    /\ op.call_id \in DOMAIN call_map
                    /\ call_map[op.call_id][1] < Len(txs)
                    /\ call_map[op.call_id][2]
                           < Len(txs[call_map[op.call_id][1] + 1].calls)
                    /\ op.value =
                           txs[call_map[op.call_id][1] + 1]
                               .calls[call_map[op.call_id][2] + 1]
                               .rw_counter_end_of_reversion
                    /\ \A j \in 1..Len(CallContextOps) :
                           (/\ IsPlaceholder(CallContextOps[j])
                            /\ CallContextOps[j].call_id = op.call_id)
                               => CallContextOps[j].value = op.value

\* C3: a successful build with two placeholders of one reverted inner call,
\* both resolved to the end of its reversion
C3_Witness ==
    /\ pc = "done"
    /\ \E i, j \in 1..Len(CallContextOps) :
           /\ i < j
           /\ IsPlaceholder(CallContextOps[i])
           /\ IsPlaceholder(CallContextOps[j])
           /\ CallContextOps[i].call_id = CallContextOps[j].call_id
           /\ call_map[CallContextOps[i].call_id][2] >= 1
           /\ CallContextOps[i].value > 0
           /\ CallContextOps[j].value > 0

\* C4, the states: the resolution of the placeholders and set_end_block run
\* at most once, set_end_block after the resolution, only in the
\* handle_block_inner call of the last block and only when the loop over its
\* transactions is over; a successful build has run both.
C4_FinalizeOnce ==
    /\ n_set_value_ops <= 1
    /\ n_set_end_block <= n_set_value_ops
    /\ (pc \in {"reversion", "end_block"} \/ n_set_value_ops = 1) =>
           /\ is_last
           /\ tx_index = num_block_txs
           /\ tx = NoTx
    /\ pc = "done" => n_set_value_ops = 1 /\ n_set_end_block = 1

\* C4, the steps: the counter, the container, the call_map and block.txs are
\* never reset, and passing from one block to the next leaves them as they are
C4_SharedAcrossBlocks ==
    /\ rwc' >= rwc
    /\ \A t \in Targets : Len(container'[t]) >= Len(container[t])
    /\ DOMAIN call_map \subseteq DOMAIN call_map'
    /\ Len(txs') >= Len(txs)
    /\ pc = "multi" => UNCHANGED <<rwc, container, call_map, txs>>

\* C4: in a build over a batch of blocks all blocks share one counter and
\* one container, and the resolution of the placeholders followed by
\* set_end_block runs exactly once, in the handle_block_inner call of the
\* last block, after the transactions of every block were replayed.
C4_BatchFinalizesOnce == []C4_FinalizeOnce /\ [][C4_SharedAcrossBlocks]_vars

\* C4: a successful build over two blocks, with transactions replayed
C4_Witness ==
    /\ pc = "done"
    /\ idx = 2
    /\ num_block_txs = 1
    /\ Len(txs) = 2
    /\ n_set_value_ops = 1
    /\ n_set_end_block = 1

\* C5, as stated: every insertion goes through the counter authority, so at
\* every point of a build, after set_end_block too, rwc - 1 is the number of
\* operations in the container.
C5_CounterCountsAllOps == Len(AllOps(container)) = rwc - 1

\* C5, amended: every insertion other than the two Start operations of
\* set_end_block goes through the counter authority, so at every point
\* rwc - 1 is the number of operations outside the Start sub-log and no two
\* of them carry one counter; the Start operations, two after a successful
\* set_end_block and none before, are inserted without advancing rwc.
C5_CounterCountsCountedOps ==
    /\ Len(CountedOps(container)) = rwc - 1
    /\ \A i, j \in 1..Len(CountedOps(container)) :
           i # j => CountedOps(container)[i].rwc # CountedOps(container)[j].rwc
    /\ Len(StartOps) = IF EndBlockSucceeded THEN 2 ELSE 0
    /\ Len(AllOps(container)) = (rwc - 1) + Len(StartOps)

\* C5: a successful build of a transaction, after set_end_block: the
\* container holds two operations more than rwc - 1
C5_Witness ==
    /\ pc = "done"
    /\ Len(txs) >= 1
    /\ Len(AllOps(container)) = rwc + 1

\* handle_block on a block without transactions, max_rws = 1000, succeeded
C6_EmptyBlockBuilt ==
    /\ pc = "done"
    /\ idx = 1
    /\ num_block_txs = 0
    /\ circuits_params.max_rws = DefaultMaxRws

C7_ContainerHoldsMaxRws ==
    (EndBlockSucceeded /\ circuits_params.max_rws # 0) =>
        /\ Len(StartOps) = 2
        /\ StartOps[1].rwc = 1
        /\ Len(AllOps(container)) = circuits_params.max_rws

\* C7, amended: a successful set_end_block appends exactly two Start
\* operations, the first with counter 1 and, with a nonzero max_rws, the
\* second with counter max_rws - total_rws >= 1: total_rws plus the counter
\* of the second Start operation, not the number of operations in the
\* container, is max_rws.
C7_SecondStartFillsMaxRws ==
    (EndBlockSucceeded /\ circuits_params.max_rws # 0) =>
        /\ Len(StartOps) = 2
        /\ StartOps[1].rwc = 1
        /\ StartOps[2].rwc >= 1
        /\ (rwc - 1) + StartOps[2].rwc = circuits_params.max_rws

\* C7: a successful build that fills the small max_rws to the last row
C7_Witness ==
    /\ pc = "done"
    /\ circuits_params.max_rws = SmallMaxRws
    /\ Len(txs) = 1
    /\ Len(StartOps) = 2
    /\ StartOps[2].rwc = 1

\* handle_block_inner meets a transaction when block.txs holds max_txs
C8_TxBeyondMaxTxs ==
    /\ pc = "tx_loop"
    /\ tx_index < num_block_txs
    /\ Len(txs) >= circuits_params.max_txs

\* C8, the step: the transaction is skipped without error, nothing is
\* inserted, the counter, the call_map and block.txs stay, the loop goes on
C8_SkipLeavesNoTrace ==
    C8_TxBeyondMaxTxs =>
        /\ UNCHANGED <<container, rwc, call_map, txs, tx, sdb, block_steps,
                       result, raised>>
        /\ pc' = "tx_loop"
        /\ tx_index' = tx_index + 1

\* C8: a transaction met when block.txs holds max_txs transactions is
\* skipped without error: no operation, no counter advance, no call_map
\* entry, no append to block.txs; so block.txs.len() <= max_txs throughout
\* the blocks of a batch.
C8_TxsCappedBySkipping ==
    [](Len(txs) <= circuits_params.max_txs) /\ [][C8_SkipLeavesNoTrace]_vars

\* C8: the second transaction of the first block was skipped, max_txs = 1
C8_Witness ==
    /\ pc = "tx_loop"
    /\ idx = 0
    /\ tx_index = 2
    /\ Len(txs) = 1
    /\ circuits_params.max_txs = 1
    /\ call_map = [c \in {txs[1].calls[1].call_id} |-> <<0, 0>>]

\* C9, the states: once a generator returned an error while transaction i
\* was replayed the build has returned that error; transaction i, the one
\* whose root call the call_map maps to index block.txs.len(), is not in
\* block.txs, the snapshot was committed for the earlier transactions only,
\* and neither the resolution of the placeholders nor set_end_block has run
C9_ErrorAborts ==
    raised # "-" =>
        /\ pc = "failed"
        /\ result = Err(raised)
        /\ tx # NoTx
        /\ tx.calls[1].call_id \in DOMAIN call_map
        /\ call_map[tx.calls[1].call_id] = <<Len(txs), 0>>
        /\ \A i \in 1..Len(txs) : txs[i].calls[1].call_id # tx.calls[1].call_id
        /\ sdb.commits = Len(txs)
        /\ n_set_value_ops = 0
        /\ n_set_end_block = 0
        /\ StartOps = <<>>
        /\ block_steps = NoBlockSteps

\* C9: an error of gen_begin_tx_ops, gen_associated_ops or gen_end_tx_ops
\* while transaction i is replayed is returned by the build at once: no
\* later step and no later transaction is replayed (the build takes no
\* step after it failed), transaction i is not appended, the snapshot is
\* not committed for it, no placeholder is resolved and no Start operation
\* is inserted.
C9_GeneratorErrorReturned == []C9_ErrorAborts /\ [][pc # "failed"]_vars

\* C9: gen_associated_ops failed in the second transaction, after a step
C9_Witness ==
    /\ pc = "failed"
    /\ raised \in GenErrors
    /\ Len(txs) = 1
    /\ index >= 1
    /\ Len(tx.steps) >= 2

\* C10, the step: the resolution of the placeholders
C10_OnlyPlaceholderValues ==
    pc = "reversion" =>
        /\ UNCHANGED <<rwc, call_map, txs, block_steps, sdb, tx, tx_ctx>>
        /\ \A t \in Targets \ {"call_context"} : container'[t] = container[t]
        /\ Len(container'["call_context"]) = Len(CallContextOps)
        /\ \A i \in 1..Len(CallContextOps) :
               LET old == CallContextOps[i]
                   new == container'["call_context"][i]
               IN  /\ new.rwc = old.rwc
                   /\ new.rw = old.rw
                   /\ new.call_id = old.call_id
                   /\ new.field = old.field
                   /\ ~IsPlaceholder(old) => new = old

\* C10: set_value_ops_call_context_rwc_eor changes only the value of the
\* call_context operations whose field is RwCounterEndOfReversion: their
\* counter, access kind, call_id and field, every other call_context
\* operation, every other sub-log, the length of every sub-log, the counter
\* and the call_map stay.
C10_ResolutionFrame == [][C10_OnlyPlaceholderValues]_vars

\* C10: the resolution has given a placeholder, inserted with value 0, the
\* end of reversion of its call, next to a call_context operation of
\* another field
C10_Witness ==
    /\ pc = "end_block"
    /\ \E i, j \in 1..Len(CallContextOps) :
           /\ IsPlaceholder(CallContextOps[i])
           /\ CallContextOps[i].value > 0
           /\ CallContextOps[j].field = "TxId"
           /\ CallContextOps[j].value > 0

\* the builder is between the end of the last transaction's replay and the
\* end of handle_block
C11_Finalizing == pc \in {"reversion", "end_block"}

\* the operations a step appends to the sub-log of target t
C11_Inserted(t) ==
    SubSeq(container'[t], Len(container[t]) + 1, Len(container'[t]))

C11_FinalizeStep ==
    C11_Finalizing =>
        /\ pc = "reversion" => \A t \in Targets : C11_Inserted(t) = <<>>
        /\ pc = "end_block" =>
            LET tx_id_read ==
                    IF txs = <<>> THEN <<>>
                    ELSE <<Operation(rwc, "READ", "TxId",
                                     Last(txs).calls[1].call_id, Len(txs))>>
            IN  /\ C11_Inserted("call_context") = tx_id_read
                /\ C11_Inserted("storage") =
                       <<Operation(rwc + Len(tx_id_read), "READ", "-", 0, 0)>>
                /\ C11_Inserted("account") = <<>>
                /\ C11_Inserted("tx_receipt") = <<>>
                /\ Len(C11_Inserted("start")) =
                       IF result'.tag = "Err" THEN 0 ELSE 2
                /\ rwc' = rwc + Len(tx_id_read) + 1

C12_SubLogsKept ==
    \A t \in Targets :
        /\ Len(container'[t]) >= Len(container[t])
        /\ \A i \in 1..Len(container[t]) :
               LET old == container[t][i]
                   new == container'[t][i]
               IN  /\ new.rwc = old.rwc
                   /\ new.rw = old.rw
                   /\ new.field = old.field
                   /\ new.call_id = old.call_id
                   /\ ~IsPlaceholder(old) => new = old

\* C12: over the whole build the length of every sub-log never decreases,
\* and an operation once inserted stays at its index with its counter (and
\* its access kind, field and call_id; its value too unless it is a
\* placeholder), the operations of calls that later revert included.
C12_AppendOnly == [][C12_SubLogsKept]_vars

\* C12: the build has succeeded with a reverted call: the storage write of
\* the call is still in the sub-log, before the compensating write, and the
\* call's placeholder has been resolved in place
C12_Witness ==
    /\ pc = "done"
    /\ \E i, j \in 1..Len(container["storage"]) :
           /\ i < j
           /\ container["storage"][i].rw = "WRITE"
           /\ container["storage"][i].value = 1
           /\ container["storage"][j].rw = "WRITE"
           /\ container["storage"][j].value = 0
           /\ container["storage"][j].rwc > container["storage"][i].rwc
    /\ \E i \in 1..Len(CallContextOps) :
           /\ IsPlaceholder(CallContextOps[i])
           /\ CallContextOps[i].value > 0
           /\ i < Len(CallContextOps)

\* the transactions new_tx has created: those of block.txs and the one
\* being replayed
C13_NewTxs == IF tx = NoTx THEN txs ELSE Append(txs, tx)

\* C13: the root call_ids of the transactions new_tx has created in a batch
\* are pairwise distinct, over the blocks of the batch too, and
\* call_map.insert has overwritten no entry: every call of every
\* transaction still has its own entry, <<index of the transaction,
\* index of the call>>, and the root entries are as many as the transactions.
C13_RootCallIdsUnique ==
    /\ \A i, j \in 1..Len(C13_NewTxs) :
           i # j => C13_NewTxs[i].calls[1].call_id
                        # C13_NewTxs[j].calls[1].call_id
    /\ \A i \in 1..Len(C13_NewTxs) : \A k \in 1..Len(C13_NewTxs[i].calls) :
           LET id == C13_NewTxs[i].calls[k].call_id
           IN  id \in DOMAIN call_map /\ call_map[id] = <<i - 1, k - 1>>
    /\ Cardinality({id \in DOMAIN call_map : call_map[id][2] = 0})
           = Len(C13_NewTxs)

\* C13: new_tx has created the transaction of the second block of a batch
\* whose first block left one transaction
C13_Witness ==
    /\ pc = "steps"
    /\ idx = 1
    /\ Len(txs) = 1
    /\ tx.calls[1].call_id > txs[1].calls[1].call_id
    /\ call_map[tx.calls[1].call_id] = <<1, 0>>

\* a placeholder of the log has no call_map entry for its call_id
C14_EntryMissing ==
    \E i \in 1..Len(CallContextOps) :
        /\ IsPlaceholder(CallContextOps[i])
        /\ CallContextOps[i].call_id \notin DOMAIN call_map

\* C14: once set_value_ops_call_context_rwc_eor has been called, the build
\* has panicked ("call_id not found in call_map") exactly when a placeholder
\* of the log has no call_map entry; then nothing is returned, set_end_block
\* is not called and no Start operation is inserted.  The capacity failure
\* is another outcome: it is returned, as Err(InternalError("rws not
\* enough")), by set_end_block, and only when no entry was missing.
C14_MissingEntryPanics ==
    n_set_value_ops = 1 =>
        /\ C14_EntryMissing <=> result.tag = "Panic"
        /\ C14_EntryMissing =>
               /\ pc = "failed"
               /\ result = Panic("call_id not found in call_map")
               /\ n_set_end_block = 0
               /\ StartOps = <<>>
        /\ result.tag = "Err" =>
               /\ ~C14_EntryMissing
               /\ result = Err(RwsNotEnough)
               /\ n_set_end_block = 1

\* C14: the resolution has panicked at a placeholder without a call_map
\* entry, after it had resolved the placeholder of a registered call
C14_Witness ==
    /\ result.tag = "Panic"
    /\ \E i, j \in 1..Len(CallContextOps) :
           /\ i < j
           /\ IsPlaceholder(CallContextOps[i])
           /\ CallContextOps[i].call_id \in DOMAIN call_map
           /\ CallContextOps[i].value > 0
           /\ IsPlaceholder(CallContextOps[j])
           /\ CallContextOps[j].call_id \notin DOMAIN call_map

\* C15: with circuits_params.max_rws = 0 set_end_block never returns the
\* capacity error: once it has been called the build has not failed, both
\* Start operations are there, the first with counter 1 and the second with
\* counter 2, which is the capacity total_rws + 2 less total_rws.
C15_DynamicSizing ==
    (circuits_params.max_rws = 0 /\ n_set_end_block = 1) =>
        /\ pc # "failed"
        /\ result.tag # "Err"
        /\ Len(StartOps) = 2
        /\ StartOps[1].rwc = 1
        /\ StartOps[2].rwc = 2

\* C15: a batch of two transactions has been finalized under max_rws = 0,
\* with more operations than the small fixed capacity holds
C15_Witness ==
    /\ pc = "done"
    /\ circuits_params.max_rws = 0
    /\ Len(txs) = 2
    /\ TotalRws(rwc) > SmallMaxRws
    /\ StartOps[2].rwc = 2

\* the steps of a transaction handle_tx has begun: the begin-tx step first,
\* then the steps of the trace, and the end-tx step last once it is pushed
C16_StepsInOrder(steps, ended) ==
    /\ steps # <<>>
    /\ steps[1].exec_state = "BeginTx"
    /\ \A k \in 2..Len(steps) :
           /\ steps[k].exec_state # "BeginTx"
           /\ steps[k].exec_state = "EndTx" <=> (ended /\ k = Len(steps))
    /\ ended => Len(steps) >= 2

\* C16, the states of handle_tx
C16_Order ==
    /\ pc = "steps" =>
           /\ C16_StepsInOrder(tx.steps, FALSE)
           /\ Len(tx.steps) = index + 1
    /\ pc \in {"commit", "push"} =>
           /\ C16_StepsInOrder(tx.steps, TRUE)
           /\ Len(tx.steps) = index + 2
    /\ sdb.commits = IF pc = "push" THEN Len(txs) + 1 ELSE Len(txs)
    /\ \A i \in 1..Len(txs) : C16_StepsInOrder(txs[i].steps, TRUE)

\* C16, the steps of handle_tx
C16_OrderStep ==
    /\ (tx # NoTx /\ tx' # NoTx) =>
           /\ Len(tx'.steps) \in {Len(tx.steps), Len(tx.steps) + 1}
           /\ SubSeq(tx'.steps, 1, Len(tx.steps)) = tx.steps
    /\ (pc = "steps" /\ pc' = "steps") =>
           /\ index' = index + 1
           /\ Len(tx'.steps) = Len(tx.steps) + 1
    /\ sdb' # sdb =>
           /\ pc = "commit"
           /\ sdb'.commits = sdb.commits + 1
           /\ UNCHANGED <<txs, tx, container, rwc>>
    /\ txs' # txs =>
           /\ pc = "push"
           /\ txs' = Append(txs, tx)
           /\ UNCHANGED <<sdb, container, rwc>>

\* C16: handle_tx works in a fixed order: the begin-tx step is the first
\* step of the transaction; each step of the trace is handled once, in the
\* order of the trace, and what it produces is appended behind the steps
\* already there; the end-tx step is the last step; then the state database
\* is committed, exactly once for the transaction; and only then the
\* transaction is appended to block.txs.
C16_FixedOrder == []C16_Order /\ [][C16_OrderStep]_vars

\* C16: the second transaction of a batch, with trace steps between its
\* begin-tx and end-tx steps, is committed and about to be appended
C16_Witness ==
    /\ pc = "push"
    /\ Len(txs) = 1
    /\ sdb.commits = 2
    /\ Len(tx.steps) >= 4
    /\ Last(tx.steps).exec_state = "EndTx"

\* handle_block_inner is about to give handle_tx a transaction
C17_TxToHandle ==
    /\ pc = "tx_loop"
    /\ tx_index < num_block_txs
    /\ ~SkipTx(Len(txs), circuits_params.max_txs)

\* what handle_tx holds after gen_begin_tx_ops when it is given etx and a
\* trace with this failed flag and this L1 fee
C17_Prologue(etx, failed, fee) ==
    HandleTxPrologue(container, rwc, call_map, Len(txs),
                     CloneWithIndex(etx, Len(txs)),
                     GethExecTrace(failed, fee),
                     IsLastTx(CheckLastTx(is_last), tx_index, num_block_txs))

\* C17: a mismatch between geth_trace.l1_fee and the fee the transaction
\* recomputes neither aborts nor alters the build: given the same
\* transaction and the same trace but for the fee, handle_tx returns no
\* error and leaves the same container, counter, call_map, transaction and
\* transaction context, the mismatch being logged only; and with a
\* mismatching fee handle_tx gets to the loop over the trace, the build not
\* having failed.
C17_FeeMismatchIgnored ==
    /\ C17_TxToHandle =>
           \A etx \in EthTxs(tx_index), failed \in BOOLEAN :
               LET equal    == C17_Prologue(etx, failed, TxL1Fee(NoTx))
                   mismatch == C17_Prologue(etx, failed, TxL1Fee(NoTx) + 1)
               IN  /\ mismatch.err = "-"
                   /\ mismatch.log # <<>>
                   /\ equal.log = <<>>
                   /\ [mismatch EXCEPT !.log = <<>>] = equal
    /\ (tx # NoTx /\ geth_trace.l1_fee # TxL1Fee(tx)) =>
           /\ pc = "steps"
           /\ tx.steps # <<>>
           /\ result = NoResult

\* C17: handle_tx has begun the second transaction of a batch, whose trace
\* carries another L1 fee than the recomputed one, as it begins any other
C17_Witness ==
    /\ pc = "steps"
    /\ geth_trace.l1_fee # TxL1Fee(tx)
    /\ Len(txs) = 1
    /\ tx.steps # <<>>
    /\ container["account"] # <<>>
    /\ result = NoResult

\* handle_tx is past new_tx
C19_Replaying == pc \in {"steps", "commit", "push"}

\* handle_tx has got through new_tx and gen_begin_tx_ops with the
\* transaction eth_tx
C19_Begun == pc = "steps" /\ index = 0

\* C19 as stated: a transaction supplied to handle_block without a
\* transaction index makes the build fail with IncompleteBlock in new_tx, so
\* that handle_tx never gets past new_tx with such a transaction.
C19_MissingIndexFails == C19_Begun => eth_tx.transaction_index.some

\* C19: a transaction supplied to handle_block without a transaction index
\* does not make the build fail: handle_block never returns IncompleteBlock,
\* and the root call of the transaction being replayed is registered under
\* block.txs.len(), whatever index the transaction was supplied with.  New_tx
\* itself, given an absent index, returns IncompleteBlock and leaves the
\* call_map as it was.
C19_IndexOverwritten ==
    /\ result # Err(IncompleteBlock)
    /\ C19_Replaying =>
           /\ tx.calls[1].call_id \in DOMAIN call_map
           /\ call_map[tx.calls[1].call_id] = <<Len(txs), 0>>
    /\ \A is_success \in BOOLEAN :
           LET r == NewTx(call_map, rwc, None, is_success)
           IN  r.err = IncompleteBlock /\ r.call_map = call_map

\* C19: the second transaction of a batch was supplied without an index and
\* handle_tx has begun it, its root call registered under index 1
C19_Witness ==
    /\ C19_Begun
    /\ ~eth_tx.transaction_index.some
    /\ tx.steps # <<>>
    /\ Len(txs) = 1
    /\ call_map[tx.calls[1].call_id] = <<1, 0>>
    /\ result = NoResult

\* the block and the traces get_state_accesses was called with
C20_Block == fn_args.eth_block

C20_Traces == fn_args.geth_traces

\* the access of the block's author
C20_AuthorAccess == Access(None, "WRITE", AccountAccess(C20_Block.author.v))

\* the accesses of the transactions before the i-th
RECURSIVE C20_Before(_)
C20_Before(i) ==
    IF i = 1 THEN 0 ELSE C20_Before(i - 1) + Len(C20_Traces[i - 1].accesses)

\* the list starts with the author's access, followed by the accesses of
\* the first n transactions, in the order of the transactions
C20_AuthorThenTxs(list, n) ==
    /\ Len(list) = 1 + C20_Before(n + 1)
    /\ list[1] = C20_AuthorAccess
    /\ \A i \in 1..n : \A k \in 1..Len(C20_Traces[i].accesses) :
           list[1 + C20_Before(i) + k] = C20_Traces[i].accesses[k]

\* every transaction of the block has a trace
C20_TracePerTx == Len(C20_Traces) >= C20_Block.transactions

\* gen_state_access_trace fails for the i-th transaction and for none before
C20_FirstFailure(i) ==
    /\ C20_Traces[i].err # "-"
    /\ \A j \in 1..(i - 1) : C20_Traces[j].err = "-"

\* C20 as stated: without an author get_state_accesses returns
\* IncompleteBlock and no list; otherwise its result starts with the one
\* Account write access of the author, followed by the accesses of each
\* transaction in transaction order.
C20_AuthorOrIncomplete ==
    pc = "returned" =>
        IF ~C20_Block.author.some THEN fn_result = Err(IncompleteBlock)
        ELSE /\ fn_result.tag = "Ok"
             /\ C20_AuthorThenTxs(fn_result.v, C20_Block.transactions)

\* C20: without an author get_state_accesses returns IncompleteBlock and no
\* list, whatever the traces are.  With an author and a trace for every
\* transaction: if gen_state_access_trace succeeds for every transaction the
\* result is a list that starts with the one Account write access of the
\* author, followed by the accesses of each transaction in transaction
\* order; if it fails for a transaction, the error of the first such
\* transaction is returned, and no list.
C20_AccessesOrError ==
    pc = "returned" =>
        /\ ~C20_Block.author.some => fn_result = Err(IncompleteBlock)
        /\ (C20_Block.author.some /\ C20_TracePerTx) =>
               IF \A i \in 1..C20_Block.transactions : C20_Traces[i].err = "-"
                   THEN /\ fn_result.tag = "Ok"
                        /\ C20_AuthorThenTxs(fn_result.v,
                                             C20_Block.transactions)
               ELSE \E i \in 1..C20_Block.transactions :
                        /\ C20_FirstFailure(i)
                        /\ fn_result = Err(C20_Traces[i].err)

\* C20: get_state_accesses has returned the list of a block with an author
\* and two transactions, the second with other accesses than the first
C20_Witness ==
    /\ pc = "returned"
    /\ fn_result.tag = "Ok"
    /\ C20_Block.transactions = 2
    /\ Len(C20_Traces[1].accesses) = 1
    /\ Len(C20_Traces[2].accesses) = 2
    /\ C20_Traces[2].accesses[1] # C20_Traces[1].accesses[1]
    /\ Len(fn_result.v) = 4

\* the references to the operations a step inserts: <<target, position>>
C21_Inserted ==
    UNION {{<<t, p>> : p \in (Len(container[t]) + 1)..Len(container'[t])} :
               t \in Targets}

\* the place of an inserted operation in the order of insertion: the counted
\* operations take the counter in that order, and the Start operations are
\* inserted after them, one after the other
C21_Order(ref) ==
    IF ref[1] = "start" THEN rwc' + ref[2]
    ELSE container'[ref[1]][ref[2]].rwc

\* C21, the step: what a successful set_end_block leaves in the steps
C21_EndBlockStep ==
    (pc = "end_block" /\ pc' = "multi") =>
        LET last == block_steps'.end_block_last.bus_mapping_instance
            old  == block_steps.end_block_last.bus_mapping_instance
            new  == SubSeq(last, Len(old) + 1, Len(last))
        IN  /\ Cardinality(C21_Inserted) \in {3, 4}
            /\ SubSeq(last, 1, Len(old)) = old
            /\ \A ref \in C21_Inserted :
                   Cardinality({k \in DOMAIN last : last[k] = ref}) = 1
            /\ {new[k] : k \in DOMAIN new} = C21_Inserted
            /\ \A k1, k2 \in DOMAIN new :
                   k1 < k2 => C21_Order(new[k1]) < C21_Order(new[k2])
            /\ \A k \in DOMAIN
                       block_steps'.end_block_not_last.bus_mapping_instance :
                   block_steps'.end_block_not_last.bus_mapping_instance[k]
                       \notin C21_Inserted
            /\ \A i \in DOMAIN txs' : \A j \in DOMAIN txs'[i].steps :
                   \A k \in DOMAIN txs'[i].steps[j].bus_mapping_instance :
                       txs'[i].steps[j].bus_mapping_instance[k]
                           \notin C21_Inserted
            /\ block_steps'.end_block_last.rwc = rwc
            /\ block_steps'.end_block_not_last.rwc = rwc

\* C21: every operation a successful set_end_block inserts (the end-block
\* reads and the two Start operations) is referenced exactly once, by
\* end_block_last's bus_mapping_instance and in the order of insertion;
\* end_block_not_last and the steps of the transactions reference none of
\* them, and both end-block steps take as rwc the counter set_end_block was
\* entered with.
C21_EndBlockRefs == [][C21_EndBlockStep]_vars

\* C21: a build with a transaction has succeeded; end_block_last references
\* the TxId read, the storage read and the two Start operations, and its
\* rwc is two below the counter
C21_Witness ==
    /\ pc = "done"
    /\ result = Ok
    /\ txs # <<>>
    /\ Len(block_steps.end_block_last.bus_mapping_instance) = 4
    /\ block_steps.end_block_last.bus_mapping_instance[4] = <<"start", 2>>
    /\ block_steps.end_block_last.rwc = rwc - 2
    /\ block_steps.end_block_not_last.bus_mapping_instance = <<>>

\* a step of handle_tx: its entry from the loop of handle_block_inner, or a
\* step inside it
C22_HandleTxStep ==
    \/ pc = "tx_loop" /\ pc' \in {"steps", "failed"}
    \/ pc \in {"steps", "commit", "push"}

\* C22, the step: what a step of handle_tx leaves of block.txs
C22_TxsStep ==
    C22_HandleTxStep =>
        IF pc = "push"
            THEN /\ pc' = "tx_loop"
                 /\ Len(txs') = Len(txs) + 1
                 /\ SubSeq(txs', 1, Len(txs)) = txs
                 /\ txs'[Len(txs) + 1] = tx
        ELSE txs' = txs

C23_Block == fn_args.block

C23_TxCircuit == KeccakInputsTxCircuit(C23_Block.txs)

C23_PiCircuit ==
    KeccakInputsPiCircuit(C23_Block.chain_id, C23_Block.prev_state_root,
                          C23_Block.withdraw_root, C23_Block.headers,
                          C23_Block.txs)

\* the elements of a sequence
C23_Elements(s) == {s[i] : i \in DOMAIN s}

\* the place of the first occurrence of x in s
C23_FirstAt(s, x) ==
    CHOOSE i \in DOMAIN s : s[i] = x /\ \A j \in 1..(i - 1) : s[j] # x

\* C23: the list keccak_inputs returns holds no two equal byte strings; its
\* elements are those of the tx-circuit inputs (transaction encodings and
\* signature-verification inputs), the two public-input encodings and
\* block.sha3_inputs; and they stand in the order of their first occurrence
\* in the concatenation of these three.  (It returns a list whenever the
\* tx-circuit inputs can be built.)
C23_DedupInOrder ==
    pc = "returned" =>
        /\ fn_result.tag = "Ok" <=> C23_TxCircuit.tag = "Ok"
        /\ fn_result.tag = "Ok" =>
            LET out == fn_result.v
                all == C23_TxCircuit.v \o C23_PiCircuit
                           \o C23_Block.sha3_inputs
            IN  /\ \A i, j \in DOMAIN out : i # j => out[i] # out[j]
                /\ C23_Elements(out) =
                       C23_Elements(C23_TxCircuit.v)
                           \cup C23_Elements(C23_PiCircuit)
                           \cup C23_Elements(C23_Block.sha3_inputs)
                /\ \A i, j \in DOMAIN out :
                       i < j => C23_FirstAt(all, out[i])
                                    < C23_FirstAt(all, out[j])

\* C23: keccak_inputs has returned the list of a block whose two
\* transactions have the same encoding, which is also one of the hash
\* inputs of the replay: the list is shorter than what was gathered
C23_Witness ==
    /\ pc = "returned"
    /\ fn_args.fn = "keccak_inputs"
    /\ fn_result.tag = "Ok"
    /\ Len(C23_Block.txs) = 2
    /\ C23_Block.txs[1].rlp_bytes = C23_Block.txs[2].rlp_bytes
    /\ Len(C23_Block.sha3_inputs) = 2
    /\ C23_Block.sha3_inputs[2] = C23_Block.txs[1].rlp_bytes
    /\ Len(fn_result.v) + 2 <=
           Len(C23_TxCircuit.v) + 2 + Len(C23_Block.sha3_inputs)

\* C24, the step: the order in which handle_block visits the transactions
\* and the steps of their traces, and where finalize stands
C24_VisitStep ==
    /\ pc \notin {"done", "failed"}
    /\ tx_index' \in {tx_index, tx_index + 1}
    /\ tx_index' <= num_block_txs
    /\ tx_index' = tx_index + 1 <=>
           (pc = "push" \/ (pc = "tx_loop" /\ pc' = "tx_loop"))
    /\ (pc = "steps" /\ pc' = "steps") => index' = index + 1
    /\ (pc = "tx_loop" /\ pc' = "steps") => index' = 0
    /\ pc' = "reversion" => (pc = "tx_loop" /\ tx_index = num_block_txs)
    /\ pc \in {"reversion", "end_block", "multi"} =>
           pc' \in {"end_block", "multi", "done", "failed"}
    /\ pc' = "done" => result' = Ok
    /\ pc' = "failed" => result'.tag \in {"Err", "Panic"}

\* C24: handle_block terminates, in Done with Ok or in Failed with an error
\* or a panic; until then it visits each transaction of the block at most
\* once, in list order, replays each step of a trace at most once, enters
\* finalize only after the last transaction was visited, and replays
\* nothing after finalize.
C24_Terminates ==
    /\ <>(pc \in {"done", "failed"})
    /\ [][C24_VisitStep]_vars

\* C24: handle_block has returned Ok for a block of two transactions, the
\* first replayed with a trace of two steps or more, the second skipped
C24_Witness ==
    /\ pc = "done"
    /\ result = Ok
    /\ num_block_txs = 2
    /\ tx_index = 2
    /\ Len(txs) = 1
    /\ Len(txs[1].steps) >= 4
    /\ n_set_end_block = 1

\* C25: after a successful set_end_block the second Start operation has the
\* counter max_rws - total_rws, with max_rws the effective capacity
\* (total_rws + 2 under dynamic sizing) and total_rws = rwc - 1; the
\* counter is at least 1, and it is 1, the counter of the first Start
\* operation, exactly when total_rws + 1 = max_rws.
C25_SecondStartCounter ==
    EndBlockSucceeded =>
        LET total_rws == rwc - 1
            max_rws   == IF circuits_params.max_rws = 0 THEN total_rws + 2
                         ELSE circuits_params.max_rws
            second    == StartOps[2].rwc
        IN  /\ Len(StartOps) = 2
            /\ second = max_rws - total_rws
            /\ second >= 1
            /\ second = 1 <=> total_rws + 1 = max_rws
            /\ second = StartOps[1].rwc <=> total_rws + 1 = max_rws

\* C25: set_end_block has succeeded with the last row of a fixed capacity:
\* both Start operations have counter 1
C25_Witness ==
    /\ EndBlockSucceeded
    /\ circuits_params.max_rws = rwc
    /\ Len(StartOps) = 2
    /\ StartOps[1].rwc = 1
    /\ StartOps[2].rwc = 1

\* C26, the step of set_end_block, with n the number of operations the
\* replay produced
C26_EndBlockStep ==
    pc = "end_block" =>
        LET n         == Len(CountedOps(container))
            reads     == IF txs = <<>> THEN 1 ELSE 2
            total_rws == n + reads
            max_rws   == IF circuits_params.max_rws = 0 THEN total_rws + 2
                         ELSE circuits_params.max_rws
        IN  /\ rwc = n + 1
            /\ container'["call_context"] =
                   IF txs = <<>> THEN container["call_context"]
                   ELSE Append(container["call_context"],
                               Operation(n + 1, "READ", "TxId",
                                         txs[Len(txs)].calls[1].call_id,
                                         Len(txs)))
            /\ container'["storage"] =
                   Append(container["storage"],
                          Operation(n + reads, "READ", "-", 0, 0))
            /\ rwc' - 1 = total_rws
            /\ pc' = "failed" <=> total_rws + 1 > max_rws
            /\ pc' # "failed" =>
                   Last(container'["start"]).rwc = max_rws - total_rws

\* C26: before the capacity check set_end_block inserts, through the
\* counter, one call_context TxId read (only when block.txs is not empty,
\* with the root call_id of the last transaction and the number of
\* transactions as value) and always one storage read; the total_rws of
\* the capacity check and of the padding is therefore the number of
\* operations the replay produced plus 1 for an empty block and plus 2
\* otherwise.
C26_ReadsBeforeCheck == [][C26_EndBlockStep]_vars

\* C26: set_end_block has succeeded on a block with two transactions: the
\* TxId read carries the root call_id of the second one and the two reads
\* took the last two counter values
C26_Witness ==
    /\ n_set_end_block = 1
    /\ pc = "multi"
    /\ Len(txs) = 2
    /\ Last(CallContextOps).field = "TxId"
    /\ Last(CallContextOps).call_id = txs[2].calls[1].call_id
    /\ Last(CallContextOps).rwc = rwc - 2
    /\ Last(container["storage"]).rwc = rwc - 1
    /\ Len(CountedOps(container)) = rwc - 1

\* the operations of sub-log t before the step are still there after it
C27_SubLogKept(t) ==
    /\ Len(container'[t]) >= Len(container[t])
    /\ SubSeq(container'[t], 1, Len(container[t])) = container[t]

\* C27, the step: what a set_end_block that fails leaves behind
C27_CapacityErrorStep ==
    (pc = "end_block" /\ pc' = "failed") =>
        /\ result' = Err(RwsNotEnough)
        /\ container'["start"] = container["start"]
        /\ block_steps' = block_steps
        /\ withdraw_root' = withdraw_root
        /\ prev_withdraw_root' = prev_withdraw_root
        /\ container'["account"] = container["account"]
        /\ container'["tx_receipt"] = container["tx_receipt"]
        /\ C27_SubLogKept("call_context")
        /\ C27_SubLogKept("storage")
        /\ Len(container'["call_context"]) - Len(container["call_context"])
               = IF txs = <<>> THEN 0 ELSE 1
        /\ Len(container'["storage"]) - Len(container["storage"]) = 1
        /\ rwc' - rwc = IF txs = <<>> THEN 1 ELSE 2
        /\ UNCHANGED <<circuits_params, call_map, txs, tx, tx_ctx, sdb>>

\* C27: when set_end_block returns the capacity error it has inserted no
\* Start operation and has not updated block.block_steps,
\* block.withdraw_root or block.prev_withdraw_root; all it leaves behind
\* are the end-block reads it inserted in the call_context and storage
\* sub-logs and the counter they advanced.
C27_CapacityErrorFrame == [][C27_CapacityErrorStep]_vars

\* C27: set_end_block has failed on a block with a transaction: the TxId
\* read and the storage read are in the container, no Start operation is,
\* and the block has the steps and the roots it was constructed with
C27_Witness ==
    /\ pc = "failed"
    /\ n_set_end_block = 1
    /\ result = Err(RwsNotEnough)
    /\ txs # <<>>
    /\ Last(CallContextOps).field = "TxId"
    /\ Last(container["storage"]).rwc = rwc - 1
    /\ StartOps = <<>>
    /\ block_steps = NoBlockSteps
    /\ withdraw_root = DefaultWord
    /\ prev_withdraw_root = DefaultWord
    /\ last_tx_log = NoLastTxLog

\* the entries of call_map that stand for a root call
C28_RootEntries == {id \in DOMAIN call_map : call_map[id][2] = 0}

\* C28: after any sequence of successful handle_block_inner calls the root
\* call of every block.txs[i] is registered in call_map as (i, 0), i being
\* the position of the transaction in the list of the whole batch; so a
\* root call_id resolved through call_map gives the transaction it is the
\* root call of.
C28_RootCallsResolve ==
    pc \in {"multi", "done"} =>
        /\ \A i \in 1..Len(txs) :
               LET id == txs[i].calls[1].call_id
               IN  /\ id \in DOMAIN call_map
                   /\ call_map[id] = <<i - 1, 0>>
                   /\ txs[call_map[id][1] + 1] = txs[i]
        /\ \A id \in C28_RootEntries :
               /\ call_map[id][1] + 1 \in 1..Len(txs)
               /\ txs[call_map[id][1] + 1].calls[1].call_id = id

\* C28: the second block of a batch has ended; its first transaction is
\* the second of the batch and its root call is registered as (1, 0)
C28_Witness ==
    /\ pc = "multi"
    /\ idx = 2
    /\ num_block_txs = 1
    /\ tx_index = 1
    /\ Len(txs) = 2
    /\ call_map[txs[2].calls[1].call_id] = <<1, 0>>
    /\ txs[1].calls[1].call_id # txs[2].calls[1].call_id

\* C29: handle_tx is given is_last_tx = true only for the transaction at
\* the last position of its block's transaction list, and only when
\* check_last_tx is set, which in a batch is in the final block; at most one
\* transaction of a build is marked last; and when the transaction at the
\* last position of the final block is skipped by the max_txs cap, no
\* replayed transaction is marked last.
C29_LastTxMarks ==
    /\ last_tx_log.marked <= 1
    /\ tx_ctx.is_last_tx =>
           /\ CheckLastTx(is_last)
           /\ is_last
           /\ tx_index + 1 = num_block_txs
           /\ last_tx_log.marked = 1
    /\ last_tx_log.marked = 1 =>
           is_last /\ last_tx_log.last_position = "handled"
    /\ last_tx_log.last_position = "skipped" =>
           last_tx_log.marked = 0 /\ ~tx_ctx.is_last_tx

\* C29: a build of one block of two transactions has ended; the first was
\* replayed, the second, at the last position, was skipped by the cap, and
\* handle_tx was never given is_last_tx = true
C29_Witness ==
    /\ pc = "done"
    /\ idx = 1
    /\ num_block_txs = 2
    /\ Len(txs) = 1
    /\ last_tx_log.last_position = "skipped"
    /\ last_tx_log.marked = 0

\* C30 as stated: get_create_init_code never reaches outside the memory:
\* for every offset, length and memory it returns the empty slice when
\* offset >= memory length, and otherwise a slice memory[offset .. end]
\* with offset <= end <= memory length.
C30_SliceInBounds ==
    (pc = "returned" /\ Len(fn_args.stack) = 3) =>
        LET memory == fn_args.memory
            offset == LowU64(fn_args.stack[2])
        IN  IF offset >= Len(memory) THEN fn_result = OkValue(<<>>)
            ELSE /\ fn_result.tag = "Ok"
                 /\ \E end \in offset..Len(memory) :
                        fn_result.v = SubSeq(memory, offset + 1, end)

\* C31 (as stated): for n transactions of which s are L1 messages or carry a
\* nonzero signature, keccak_inputs_tx_circuit returns exactly n + 2s + 3
\* byte strings: the n encodings, the dummy signed encoding, a (public key,
\* message) pair for each of the s transactions, the padding public key and
\* the dummy unsigned encoding.
C31_Txs == fn_args.txs

\* the transactions that contribute a signature pair
C31_Signing == {i \in DOMAIN C31_Txs : C31_Txs[i].tx_type = "L1Msg" \/ C31_Txs[i].signed}

\* the position of transaction i among the signing ones
C31_Rank(i) == Cardinality({j \in C31_Signing : j <= i})

\* the signature a signing transaction contributes
C31_SignDataOf(i) ==
    IF C31_Txs[i].tx_type = "L1Msg" THEN DefaultSignData ELSE C31_Txs[i].sign_data.v

\* the signing transactions whose signature cannot be recovered
C31_Failing == {i \in C31_Signing : C31_Txs[i].tx_type # "L1Msg" /\ C31_Txs[i].sign_data.tag = "Err"}

C31_Layout(v) ==
    LET n == Len(C31_Txs)
        s == Cardinality(C31_Signing)
    IN  /\ Len(v) = n + 2 * s + 3
        /\ \A i \in 1..n : v[i] = C31_Txs[i].rlp_bytes
        /\ v[n + 1] = DummyTxRlpSigned
        /\ \A i \in C31_Signing :
              /\ v[n + 2 * C31_Rank(i)] = PkBytesSwapEndianness(C31_SignDataOf(i).pk)
              /\ v[n + 2 * C31_Rank(i) + 1] = C31_SignDataOf(i).msg
        /\ v[n + 2 * s + 2] = PkBytesSwapEndianness(DefaultSignData.pk)
        /\ v[n + 2 * s + 3] = DummyTxRlpUnsigned

C31_AlwaysLayout ==
    (pc = "returned" /\ fn_args.fn = "keccak_inputs_tx_circuit")
        => /\ fn_result.tag = "Ok"
           /\ C31_Layout(fn_result.v)

\* C31 (amended): when sign_data() succeeds for every transaction that is no
\* L1 message and carries a nonzero signature, keccak_inputs_tx_circuit
\* returns exactly those n + 2s + 3 byte strings in that order, an unsigned
\* transaction that is no L1 message contributing its encoding only; when
\* sign_data() fails for one of them it returns the error of the first such
\* transaction and no list.
C31_LayoutOrError ==
    (pc = "returned" /\ fn_args.fn = "keccak_inputs_tx_circuit")
        => IF C31_Failing = {}
               THEN /\ fn_result.tag = "Ok"
                    /\ C31_Layout(fn_result.v)
           ELSE fn_result = C31_Txs[CHOOSE i \in C31_Failing : \A j \in C31_Failing : i <= j].sign_data

\* an unsigned transaction followed by a signed one: seven byte strings
C31_Witness ==
    /\ pc = "returned"
    /\ fn_args.fn = "keccak_inputs_tx_circuit"
    /\ fn_result.tag = "Ok"
    /\ Len(C31_Txs) = 2
    /\ C31_Txs[1].tx_type # "L1Msg" /\ ~C31_Txs[1].signed
    /\ C31_Txs[2].tx_type # "L1Msg" /\ C31_Txs[2].signed
    /\ Len(fn_result.v) = 7

\* challenge^n in the field
RECURSIVE C32_Pow(_, _)
C32_Pow(c, n) == IF n = 0 THEN 1 % FieldModulus ELSE FrMul(c, C32_Pow(c, n - 1))

\* the sum of the field elements of a sequence
RECURSIVE C32_Sum(_)
C32_Sum(vs) == IF vs = <<>> THEN 0 ELSE FrAdd(Head(vs), C32_Sum(Tail(vs)))

\* inputs[0] + challenge * inputs[1] + ... + challenge^k * inputs[k]
C32_LowFirst(inputs, c) == C32_Sum([i \in DOMAIN inputs |-> FrMul(C32_Pow(c, i - 1), inputs[i].value)])

\* challenge^k * inputs[0] + ... + challenge * inputs[k-1] + inputs[k]
C32_HighFirst(inputs, c) == C32_Sum([i \in DOMAIN inputs |-> FrMul(C32_Pow(c, Len(inputs) - i), inputs[i].value)])

\* a call of rlc, or of rlc_with_flag with every flag equal to 1, returned a
\* cell
C32_Returned ==
    /\ pc = "returned"
    /\ fn_result.tag = "Ok"
    /\ \/ fn_args.fn = "rlc"
       \/ /\ fn_args.fn = "rlc_with_flag"
          /\ \A i \in DOMAIN fn_args.flags : fn_args.flags[i].value = 1

C34_Kept ==
    LET kept == {i \in DOMAIN fn_args.inputs : i = 1 \/ fn_args.flags[i].value = 1}
        nth(k) == CHOOSE i \in kept : Cardinality({j \in kept : j <= i}) = k
    IN  [k \in 1..Cardinality(kept) |-> fn_args.inputs[nth(k)]]

\* what rlc returns for the kept inputs: the last of them carries no power
\* of the challenge, the one before it the first power, and so on
C34_RlcOfKept ==
    LET n == Len(C34_Kept)
    IN  C32_Sum([k \in 1..n |-> FrMul(C32_Pow(fn_args.challenge, n - k), C34_Kept[k].value)])

C35_Advance(gate) ==
    CASE gate \in {"add", "sub", "mul", "mul_add", "enforce_binary"} -> 4
      [] gate \in {"load_private", "read_challenge"} -> 1
      [] gate = "not" -> 5
      [] gate = "select" -> 13

\* C35: each successful add, sub, mul and mul_add writes exactly the rows
\* offset..offset+3 and advances offset by 4; load_private and
\* read_challenge write one row and advance by 1; enforce_binary advances
\* by 4, not by 5 and select by 13; offset never decreases, and the rows
\* written by successive gate calls on one offset never overlap.
C35_RowAccounting ==
    /\ gate_log # <<>> => gate_offset = gate_log[Len(gate_log)].to
    /\ \A i \in DOMAIN gate_log :
          LET call == gate_log[i]
          IN  /\ call.to >= call.from
              /\ i > 1 => call.from = gate_log[i - 1].to
              /\ call.res.tag = "Ok"
                    => /\ call.to = call.from + C35_Advance(call.gate)
                       /\ call.rows = call.from..(call.to - 1)
              /\ \A j \in 1..(i - 1) : gate_log[j].rows \cap call.rows = {}

\* a select that wrote thirteen rows, followed by a mul that wrote the next
\* four
C35_Witness ==
    /\ Len(gate_log) = 2
    /\ gate_log[1].gate = "select"
    /\ gate_log[1].res.tag = "Ok"
    /\ gate_log[1].rows = 0..12
    /\ gate_log[2].gate = "mul"
    /\ gate_log[2].res.tag = "Ok"
    /\ gate_log[2].rows = 13..16
    /\ gate_offset = 17

====
